---------------------------- MODULE Spec2Model ----------------------------
(***************************************************************************)
(* Duplicate detection and record reconciliation of the migration agents:  *)
(*   oskar.py  clean_data, remove_exact_duplicates,                         *)
(*             handle_fuzzy_duplicates, calculate_group_similarity          *)
(*   emma.py   detect_exact_duplicates, detect_fuzzy_duplicates             *)
(*   james.py  validate_and_check_duplicates                                *)
(*                                                                         *)
(* A text value is a sequence of one-character strings.  A missing cell    *)
(* (pandas NaN) is the one-element sequence NaN, which is no text.  A      *)
(* DataFrame is a sequence of rows [label, vals]: the position in the      *)
(* sequence is what .iloc addresses (0-based in the code, so position p is *)
(* element p + 1), the label is what .loc / drop(index=...) address.       *)
(***************************************************************************)
EXTENDS Integers, Sequences, FiniteSets, TLC

\* ------------------------------------------------------------------ bounds
MaxRows == 4
MaxTasks == 2
MaxMapped == 2
MaxTarget == 2
\* the numbers of rows that stand, in the runs on large files, for the
\* 10,000 rows of a chunk and the 10,000 duplicated rows of the cutoff
LargeChunk == 2
LargeCutoff == 3

\* ------------------------------------------------------------- text values
NaN == <<"NaN">>
SP == " "

\* the rows a file may hold: two text columns; the texts of a row are "",
\* " ", "a", "b" and "a b" when both columns are joined
RowValues ==
    {<<NaN, NaN>>, <<<<SP>>, NaN>>, <<<<"a">>, NaN>>, <<NaN, <<"b">>>>,
     <<<<"a">>, <<"b">>>>}
AllColumns == <<1, 2>>
ColumnChoices == {<<1>>, <<1, 2>>}
SimilarityThresholds == {50, 90}
ReviewThresholds == {50, 85}

Max(a, b) == IF a >= b THEN a ELSE b

\* pd.notna(val) / pd.isna(val)
notna(v) == v # NaN
isna(v) == v = NaN

\* " ".join(parts)
RECURSIVE join(_)
join(parts) ==
    IF parts = <<>> THEN <<>>
    ELSE IF Len(parts) = 1 THEN parts[1]
    ELSE parts[1] \o <<SP>> \o join(Tail(parts))

\* str.isspace(): non-empty and every character is whitespace
isspace(s) == s # <<>> /\ \A k \in 1..Len(s) : s[k] = SP

\* length of a longest common subsequence
RECURSIVE LCS(_, _)
LCS(s, t) ==
    IF s = <<>> \/ t = <<>> THEN 0
    ELSE IF Head(s) = Head(t) THEN 1 + LCS(Tail(s), Tail(t))
    ELSE Max(LCS(Tail(s), t), LCS(s, Tail(t)))

\* int(round(num / den)) with Python's round-half-to-even
RoundDiv(num, den) ==
    LET q == num \div den
        r == num % den
    IN  IF 2 * r < den THEN q
        ELSE IF 2 * r > den THEN q + 1
        ELSE IF q % 2 = 0 THEN q ELSE q + 1

\* fuzz.ratio(s1, s2): the normalized indel similarity, 0..100, as an int.
\* Two empty strings are at distance 0 of a maximum 0, which scores 100.
ratio(s1, s2) ==
    IF Len(s1) + Len(s2) = 0 THEN 100
    ELSE RoundDiv(200 * LCS(s1, s2), Len(s1) + Len(s2))

\* ------------------------------------------------------------- DataFrames
Labels(d) == {d[k].label : k \in 1..Len(d)}

\* df.iloc[p] of a 0-based position p
iloc(d, p) == d[p + 1]

\* the elements of a sequence
Range(seq) == {seq[k] : k \in 1..Len(seq)}

\* a freshly read file: RangeIndex labels 0..n-1
Frame(rows) == [k \in 1..Len(rows) |-> [label |-> k - 1, vals |-> rows[k]]]

\* the tuple of the values of the columns `cols` in a row
KeyTuple(vals, cols) == [k \in 1..Len(cols) |-> vals[cols[k]]]

\* ' '.join(str(val) for val in row if pd.notna(val)) over df[columns]
combined_for_fuzzy(vals, cols) ==
    join(SelectSeq(KeyTuple(vals, cols), notna))


\* ======================================================================
\* oskar.py: clean_data and its helpers
\* ======================================================================
VARIABLES
    df,                    \* clean_data: the DataFrame the tasks work on
    pc,                    \* clean_data: where the call is
    auto_apply,            \* clean_data parameter
    review_threshold,      \* clean_data parameter
    operations_performed,  \* results["cleaning_summary"]["operations_performed"]
    cleaning_summary,      \* the counters of results["cleaning_summary"]
    duplicate_results,     \* what remove_exact_duplicates returned last
    columns,               \* handle_fuzzy_duplicates: parameter
    similarity_threshold,  \* handle_fuzzy_duplicates: parameter
    i,                     \* handle_fuzzy_duplicates: outer loop position
    j,                     \* handle_fuzzy_duplicates: inner loop position
    group,                 \* handle_fuzzy_duplicates: the group being built
    processed_indices,     \* handle_fuzzy_duplicates: positions already recruited
    similar_groups,        \* handle_fuzzy_duplicates: the groups found
    fuzzy_results          \* what handle_fuzzy_duplicates returned last

\* emma.py: profile_csv's duplicate analysis and its helpers
VARIABLES
    profile_pc,            \* profile_csv: where the call is
    profile_df,            \* profile_csv: df
    strategy_columns,      \* profile_csv: best_strategy["columns"]
    exact_duplicates,      \* profile_csv: what detect_exact_duplicates returned
    string_columns,        \* detect_fuzzy_duplicates: parameter
    profile_threshold,     \* detect_fuzzy_duplicates: similarity_threshold
    anchor_pos,            \* detect_fuzzy_duplicates: place of i in sample_indices
    match_pos,             \* detect_fuzzy_duplicates: place of j in potential_matches
    fuzzy_group,           \* detect_fuzzy_duplicates: group (row labels)
    fuzzy_processed,       \* detect_fuzzy_duplicates: processed_indices (row labels)
    fuzzy_groups,          \* detect_fuzzy_duplicates: fuzzy_groups
    fuzzy_duplicates       \* profile_csv: what detect_fuzzy_duplicates returned

profileVars ==
    <<profile_pc, profile_df, strategy_columns, exact_duplicates,
      string_columns, profile_threshold, anchor_pos, match_pos, fuzzy_group,
      fuzzy_processed, fuzzy_groups, fuzzy_duplicates>>

oskarVars ==
    <<df, pc, auto_apply, review_threshold, operations_performed,
      cleaning_summary, duplicate_results, columns, similarity_threshold,
      i, j, group, processed_indices, similar_groups, fuzzy_results>>

\* james.py: validate_and_check_duplicates
VARIABLES
    james_pc,              \* where the call is
    mapped_columns,        \* mapped_data.columns
    target_columns,        \* target_data.columns
    mapped_data,           \* the rows of the mapped file (dataset A)
    target_data,           \* the rows of the target file (dataset B)
    key_fields,            \* parameter
    valid_keys,            \* the key fields found in both datasets
    james_threshold,       \* parameter similarity_threshold
    source_idx,            \* idx of the next row of mapped_data.iterrows()
    highest_similarity,    \* of the row classified last
    best_match,            \* of the row classified last: its place in
                           \* target_data, -1 for None
    duplicates,            \* the duplicate_info records
    unique_records,        \* the rows found unique
    james_results          \* what the call returned

jamesVars ==
    <<james_pc, mapped_columns, target_columns, mapped_data, target_data,
      key_fields, valid_keys, james_threshold, source_idx, highest_similarity, best_match,
      duplicates, unique_records, james_results>>

\* ---- state of the further tools --------------------------------------
\* identify_key_columns and suggest_duplicate_strategies, the two helpers
\* profile_csv calls between the column statistics and the duplicate
\* analysis
VARIABLES
    roles_pc,              \* "idle", "start", "identified", "suggested"
    schema,                \* df.columns with what the helpers read of each
                           \* column: its name, its dtype, its nunique()
    row_count,             \* len(df)
    key_columns,           \* what identify_key_columns returned
    duplicate_strategies   \* what suggest_duplicate_strategies returned

rolesVars == <<roles_pc, schema, row_count, key_columns, duplicate_strategies>>

\* clean_data's two column tasks, handle_missing_values and
\* standardize_capitalization
VARIABLES
    dtypes,                \* the dtype pd.read_csv gave each column
    column_call            \* the column task performed last: its arguments,
                           \* the dataset passed in as the call left it, and
                           \* what it returned

columnVars == <<dtypes, column_call>>

\* detect_fuzzy_duplicates on a file longer than its sampling caps, called
\* twice on the same file
VARIABLES
    run_sample,            \* sample_indices of the call under way, the
                           \* anchors not yet visited
    first_run              \* what the first call returned

sampleVars == <<run_sample, first_run>>

\* migration_workflow, called turn after turn by a caller that passes the
\* returned next_state and context back
VARIABLES
    mike_state,            \* current_state of the next call
    context,               \* context of the next call: the keys it holds
    mike_call,             \* current_state and user_input of the last call
    mike_response,         \* workflow_status of the last response, if any
    mike_history           \* the states the caller was sent through and the
                           \* agents reported completed or skipped so far

mikeVars == <<mike_state, context, mike_call, mike_response, mike_history>>

\* the files validate_and_check_duplicates and process_duplicates share,
\* over a sequence of calls on one mapped file
VARIABLES
    unique_file,           \* <mapped>_unique.csv: whether it exists, its rows
    last_validate,         \* the most recent validate_and_check_duplicates
                           \* run: whether it classified the rows, and the
                           \* rows it found unique and duplicate
    transfer,              \* what the last process_duplicates call returned
                           \* and wrote to target_path
    james_calls            \* the calls made so far

fileVars == <<unique_file, last_validate, transfer, james_calls>>

\* server_with_sse.py: the shared event queue and the /events streams
VARIABLES
    event_queue,           \* the module's one asyncio.Queue
    streams,               \* per client: where its generator stands, its
                           \* client_queue, whether the client has gone
                           \* away, the events it received
    sent                   \* the events send_event enqueued, each with the
                           \* clients connected at that moment

sseVars == <<event_queue, streams, sent>>

extraVars == <<rolesVars, columnVars, sampleVars, mikeVars, fileVars, sseVars>>

\* ---- remove_exact_duplicates -----------------------------------------

\* df.duplicated(subset=columns, keep=False): NaN equals NaN
duplicated_mask(d, cols) ==
    [k \in 1..Len(d) |->
        \E m \in 1..Len(d) :
            m # k /\ KeyTuple(d[m].vals, cols) = KeyTuple(d[k].vals, cols)]

\* the keys of frame.groupby(columns): groupby drops the rows whose key
\* holds a NaN (dropna=True is the default)
groupby_keys(d, cols) ==
    {KeyTuple(d[k].vals, cols) : k \in 1..Len(d)}
        \ {t \in {KeyTuple(d[k].vals, cols) : k \in 1..Len(d)} :
              \E c \in 1..Len(t) : isna(t[c])}

\* the rows a mask selects: df[mask]
masked(d, mask) ==
    LET RECURSIVE Pick(_)
        Pick(k) ==
            IF k > Len(d) THEN <<>>
            ELSE IF mask[k] THEN <<d[k]>> \o Pick(k + 1) ELSE Pick(k + 1)
    IN  Pick(1)

\* mutant: the last row of each key tuple is kept
drop_duplicates_keep_last(d, cols) ==
    masked(d, [k \in 1..Len(d) |->
                  ~ \E m \in (k + 1)..Len(d) :
                        KeyTuple(d[m].vals, cols) = KeyTuple(d[k].vals, cols)])

\* df.drop_duplicates(subset=columns, keep='first'): labels are kept
drop_duplicates(d, cols) ==
    masked(d, [k \in 1..Len(d) |->
                  ~ \E m \in 1..(k - 1) :
                        KeyTuple(d[m].vals, cols) = KeyTuple(d[k].vals, cols)])

remove_exact_duplicates(d, cols) ==
    LET mask == duplicated_mask(d, cols)
        duplicate_count == Cardinality({k \in 1..Len(d) : mask[k]})
        cleaned == drop_duplicates(d, cols)
    IN  IF duplicate_count = 0
        THEN [cleaned_df |-> d, duplicates_removed |-> 0, groups_found |-> 0]
        ELSE [cleaned_df |-> cleaned,
              duplicates_removed |-> Len(d) - Len(cleaned),
              groups_found |-> Cardinality(groupby_keys(masked(d, mask), cols))]

\* ---- calculate_group_similarity --------------------------------------

\* the text of position p in the frame handle_fuzzy_duplicates works on
text_at(d, cols, p) == combined_for_fuzzy(iloc(d, p).vals, cols)

\* mutant: only the pairs of the anchor with each other member
pairwise_anchor_only(d, cols, indices) ==
    [k \in 1..(Len(indices) - 1) |->
        ratio(text_at(d, cols, indices[1]), text_at(d, cols, indices[k + 1]))]

\* the list `similarities`: one fuzz.ratio per pair i < j of `indices`
pairwise_similarities(d, cols, indices) ==
    LET RECURSIVE Inner(_, _)
        Inner(a, b) ==
            IF b > Len(indices) THEN <<>>
            ELSE <<ratio(text_at(d, cols, indices[a]),
                         text_at(d, cols, indices[b]))>> \o Inner(a, b + 1)
        RECURSIVE Outer(_)
        Outer(a) ==
            IF a > Len(indices) THEN <<>>
            ELSE Inner(a, a + 1) \o Outer(a + 1)
    IN  Outer(1)

RECURSIVE SumSeq(_)
SumSeq(s) == IF s = <<>> THEN 0 ELSE Head(s) + SumSeq(Tail(s))

\* The average is the fraction sum / n; it is kept as the pair [sum, n]
\* and compared by cross-multiplication, which is exact.
calculate_group_similarity(d, cols, indices) ==
    LET similarities == pairwise_similarities(d, cols, indices)
    IN  IF Len(indices) <= 1 THEN [sum |-> 100, n |-> 1]
        ELSE IF similarities # <<>>
        THEN [sum |-> SumSeq(similarities), n |-> Len(similarities)]
        ELSE [sum |-> 0, n |-> 1]

\* group_similarity >= review_threshold
AtLeast(avg, threshold) == avg.sum >= threshold * avg.n

\* ---- handle_fuzzy_duplicates -----------------------------------------

\* "Skip empty strings": pd.isna(text) or not text or text.isspace()
skip_text(s) == s = <<>> \/ isspace(s)

\* mutant: the comparison with the threshold taken as strict
is_similar_strict(similarity, threshold) == similarity > threshold

\* mutant: the comparison with the threshold inverted
is_similar_inverted(similarity, threshold) == similarity <= threshold

\* similarity >= similarity_threshold
is_similar(similarity, threshold) == similarity >= threshold

\* mutant: a group of one member is kept
group_found_nonempty(g) == Len(g) >= 1

\* len(group) > 1
group_found(g) == Len(g) > 1

\* mutant: the review threshold taken as a strict bound
disposition_strict(group_similarity, threshold, auto) ==
    IF group_similarity.sum > threshold * group_similarity.n /\ auto
    THEN "auto_merge"
    ELSE IF group_similarity.sum > threshold * group_similarity.n
    THEN "review_required"
    ELSE "human_escalation"

\* the branch taken for one group at lines 341-357
disposition(group_similarity, threshold, auto) ==
    IF AtLeast(group_similarity, threshold) /\ auto THEN "auto_merge"
    ELSE IF AtLeast(group_similarity, threshold) THEN "review_required"
    ELSE "human_escalation"

\* group_indices[1:], the members auto-merge removes
remove_indices(group_indices) == Tail(group_indices)

\* the loop over similar_groups (lines 337-357)
process_groups(groups, threshold, auto) ==
    LET RECURSIVE Loop(_, _)
        Loop(k, acc) ==
            IF k > Len(groups) THEN acc
            ELSE LET g == groups[k]
                     d == disposition(g.similarity, threshold, auto)
                 IN  Loop(k + 1,
                       IF d = "auto_merge"
                       THEN [acc EXCEPT
                               !.indices_to_remove = @ \cup
                                   {remove_indices(g.indices)[m] :
                                       m \in 1..Len(remove_indices(g.indices))},
                               !.auto_merged_groups = @ + 1]
                       ELSE IF d = "review_required"
                       THEN [acc EXCEPT
                               !.review_required_groups = @ + 1,
                               !.groups_for_review = Append(@, g)]
                       ELSE [acc EXCEPT
                               !.human_escalation_groups = @ + 1,
                               !.groups_for_review = Append(@, g)])
    IN  Loop(1, [indices_to_remove |-> {}, auto_merged_groups |-> 0,
                 review_required_groups |-> 0, human_escalation_groups |-> 0,
                 groups_for_review |-> <<>>])

\* cleaned_df.drop(index=list(indices_to_remove)): the numbers are taken as
\* row LABELS; a number that is no label raises KeyError
drop_raises(d, indices_to_remove) == ~ (indices_to_remove \subseteq Labels(d))

drop_index(d, indices_to_remove) ==
    masked(d, [k \in 1..Len(d) |-> d[k].label \notin indices_to_remove])

NoFuzzyResults ==
    [cleaned_df |-> <<>>, auto_merged_groups |-> 0, review_required_groups |-> 0,
     human_escalation_groups |-> 0, groups_for_review |-> <<>>]

NoDuplicateResults ==
    [cleaned_df |-> <<>>, duplicates_removed |-> 0, groups_found |-> 0]


\* ---- clean_data: the task loop ---------------------------------------

Datasets == UNION {[1..n -> RowValues] : n \in 1..MaxRows}

NoSummary ==
    [rows_affected |-> 0, auto_merged_groups |-> 0,
     review_required_groups |-> 0, human_escalation_groups |-> 0]

\* pd.read_csv and the initial `results` (lines 26-46)
CleanInit ==
    /\ df \in {Frame(rows) : rows \in Datasets}
    /\ pc = "tasks"
    /\ auto_apply \in BOOLEAN
    /\ review_threshold \in ReviewThresholds
    /\ operations_performed = <<>>
    /\ cleaning_summary = NoSummary
    /\ duplicate_results = NoDuplicateResults
    /\ columns = AllColumns
    /\ similarity_threshold = 90
    /\ i = 0
    /\ j = 0
    /\ group = <<>>
    /\ processed_indices = {}
    /\ similar_groups = <<>>
    /\ fuzzy_results = NoFuzzyResults

fuzzyLocals ==
    <<columns, similarity_threshold, i, j, group, processed_indices,
      similar_groups, fuzzy_results>>

\* task_type == "remove_exact_duplicates" (lines 62-75)
TaskRemoveExactDuplicates ==
    /\ pc = "tasks"
    /\ Len(operations_performed) < MaxTasks
    /\ \E cols \in ColumnChoices :
          LET r == remove_exact_duplicates(df, cols)
          IN  /\ duplicate_results' = r
              /\ df' = r.cleaned_df
              /\ cleaning_summary' =
                    [cleaning_summary EXCEPT
                        !.rows_affected = @ + r.duplicates_removed,
                        !.auto_merged_groups = @ + r.groups_found]
    /\ operations_performed' =
          Append(operations_performed, "Removed exact duplicates")
    /\ UNCHANGED <<pc, auto_apply, review_threshold, fuzzyLocals>>
    /\ UNCHANGED <<profileVars, jamesVars, extraVars>>

\* task_type == "review_fuzzy_duplicates": the call of
\* handle_fuzzy_duplicates (lines 79-85) up to its loop (lines 272-281)
TaskReviewFuzzyDuplicates ==
    /\ pc = "tasks"
    /\ Len(operations_performed) < MaxTasks
    /\ columns' \in ColumnChoices
    /\ similarity_threshold' \in SimilarityThresholds
    /\ i' = 0
    /\ processed_indices' = {}
    /\ similar_groups' = <<>>
    /\ pc' = "outer"
    /\ UNCHANGED <<df, auto_apply, review_threshold, operations_performed,
                   cleaning_summary, duplicate_results, j, group, fuzzy_results>>
    /\ UNCHANGED <<profileVars, jamesVars, extraVars>>

\* lines 283-291: the row is already in a group, or its text is empty
OuterSkip ==
    /\ pc = "outer"
    /\ i < Len(df)
    /\ i \in processed_indices \/ skip_text(text_at(df, columns, i))
    /\ i' = i + 1
    /\ UNCHANGED <<df, pc, auto_apply, review_threshold, operations_performed,
                   cleaning_summary, duplicate_results, columns,
                   similarity_threshold, j, group, processed_indices,
                   similar_groups, fuzzy_results>>
    /\ UNCHANGED <<profileVars, jamesVars, extraVars>>

\* lines 283-296: the row becomes the anchor of a new group
OuterAnchor ==
    /\ pc = "outer"
    /\ i < Len(df)
    /\ ~ (i \in processed_indices \/ skip_text(text_at(df, columns, i)))
    /\ group' = <<i>>
    /\ j' = i + 1
    /\ pc' = "inner"
    /\ UNCHANGED <<df, auto_apply, review_threshold, operations_performed,
                   cleaning_summary, duplicate_results, columns,
                   similarity_threshold, i, processed_indices,
                   similar_groups, fuzzy_results>>
    /\ UNCHANGED <<profileVars, jamesVars, extraVars>>

\* lines 296-304: the other row is already in a group, or its text is empty
InnerSkip ==
    /\ pc = "inner"
    /\ j < Len(df)
    /\ j \in processed_indices \/ skip_text(text_at(df, columns, j))
    /\ j' = j + 1
    /\ UNCHANGED <<df, pc, auto_apply, review_threshold, operations_performed,
                   cleaning_summary, duplicate_results, columns,
                   similarity_threshold, i, group, processed_indices,
                   similar_groups, fuzzy_results>>
    /\ UNCHANGED <<profileVars, jamesVars, extraVars>>

\* lines 306-312: one comparison of the anchor with another row
InnerCompare ==
    /\ pc = "inner"
    /\ j < Len(df)
    /\ ~ (j \in processed_indices \/ skip_text(text_at(df, columns, j)))
    /\ LET similarity ==
              ratio(text_at(df, columns, i), text_at(df, columns, j))
       IN  IF is_similar(similarity, similarity_threshold)
           THEN /\ group' = Append(group, j)
                /\ processed_indices' = processed_indices \cup {j}
           ELSE UNCHANGED <<group, processed_indices>>
    /\ j' = j + 1
    /\ UNCHANGED <<df, pc, auto_apply, review_threshold, operations_performed,
                   cleaning_summary, duplicate_results, columns,
                   similarity_threshold, i, similar_groups, fuzzy_results>>
    /\ UNCHANGED <<profileVars, jamesVars, extraVars>>

\* lines 314-323: the inner loop is over; the group is kept if it has
\* more than one member
InnerEnd ==
    /\ pc = "inner"
    /\ j >= Len(df)
    /\ similar_groups' =
          IF group_found(group)
          THEN Append(similar_groups,
                      [indices |-> group,
                       similarity |->
                           calculate_group_similarity(df, columns, group)])
          ELSE similar_groups
    /\ i' = i + 1
    /\ pc' = "outer"
    /\ UNCHANGED <<df, auto_apply, review_threshold, operations_performed,
                   cleaning_summary, duplicate_results, columns,
                   similarity_threshold, j, group, processed_indices,
                   fuzzy_results>>
    /\ UNCHANGED <<profileVars, jamesVars, extraVars>>

\* lines 325-369: the groups are processed, the rows dropped, the result
\* returned
FuzzyFinish ==
    /\ pc = "outer"
    /\ i >= Len(df)
    /\ LET acc == process_groups(similar_groups, review_threshold, auto_apply)
       IN  /\ ~ drop_raises(df, acc.indices_to_remove)
           /\ fuzzy_results' =
                 [cleaned_df |->
                      IF acc.indices_to_remove # {}
                      THEN drop_index(df, acc.indices_to_remove) ELSE df,
                  auto_merged_groups |-> acc.auto_merged_groups,
                  review_required_groups |-> acc.review_required_groups,
                  human_escalation_groups |-> acc.human_escalation_groups,
                  groups_for_review |-> acc.groups_for_review]
    /\ pc' = "fuzzy_return"
    /\ UNCHANGED <<df, auto_apply, review_threshold, operations_performed,
                   cleaning_summary, duplicate_results, columns,
                   similarity_threshold, i, j, group, processed_indices,
                   similar_groups>>
    /\ UNCHANGED <<profileVars, jamesVars, extraVars>>

\* line 361 raises KeyError; clean_data returns {"error": ...} (line 157)
FuzzyDropKeyError ==
    /\ pc = "outer"
    /\ i >= Len(df)
    /\ drop_raises(df, process_groups(similar_groups, review_threshold,
                                      auto_apply).indices_to_remove)
    /\ pc' = "error"
    /\ UNCHANGED <<df, auto_apply, review_threshold, operations_performed,
                   cleaning_summary, duplicate_results, fuzzyLocals>>
    /\ UNCHANGED <<profileVars, jamesVars, extraVars>>

\* lines 87-101: clean_data takes the result over and goes on to the
\* next task
FuzzyReturn ==
    /\ pc = "fuzzy_return"
    /\ df' = fuzzy_results.cleaned_df
    /\ operations_performed' =
          Append(operations_performed, "Processed fuzzy duplicates")
    /\ cleaning_summary' =
          [cleaning_summary EXCEPT
              !.auto_merged_groups = @ + fuzzy_results.auto_merged_groups,
              !.review_required_groups = @ + fuzzy_results.review_required_groups,
              !.human_escalation_groups = @ + fuzzy_results.human_escalation_groups]
    /\ pc' = "tasks"
    \* the locals of the finished call are gone
    /\ columns' = AllColumns
    /\ similarity_threshold' = 90
    /\ i' = 0
    /\ j' = 0
    /\ group' = <<>>
    /\ processed_indices' = {}
    /\ similar_groups' = <<>>
    /\ fuzzy_results' = NoFuzzyResults
    /\ UNCHANGED <<auto_apply, review_threshold, duplicate_results>>
    /\ UNCHANGED <<profileVars, jamesVars, extraVars>>

\* lines 141-154: the task list is exhausted; the file is saved
CleanFinish ==
    /\ pc = "tasks"
    /\ pc' = "done"
    /\ UNCHANGED <<df, auto_apply, review_threshold, operations_performed,
                   cleaning_summary, duplicate_results, fuzzyLocals>>
    /\ UNCHANGED <<profileVars, jamesVars, extraVars>>


\* ======================================================================
\* emma.py: detect_exact_duplicates, detect_fuzzy_duplicates and the part
\* of profile_csv that calls them (lines 128-190), for a file of at most
\* chunk_size rows and fewer rows than both fuzzy sampling caps, so that
\* sample_indices is df.index and potential_matches is every other row
\* ======================================================================

SummaryCutoff == 10000
RecordsShown == 10

\* df.index.tolist()
index_list(d) == [k \in 1..Len(d) |-> d[k].label]

\* df.loc[label]
loc(d, label) == d[CHOOSE k \in 1..Len(d) : d[k].label = label]

\* df.iloc[indices] for a list of numbers
iloc_rows(d, indices) == [k \in 1..Len(indices) |-> iloc(d, indices[k])]

\* df.iloc[indices] raises IndexError when a number is no position
iloc_raises(d, indices) == \E k \in 1..Len(indices) : indices[k] >= Len(d)

\* the first n elements: indices[:n]
first_n(seq, n) == SubSeq(seq, 1, IF Len(seq) < n THEN Len(seq) ELSE n)

\* exact_dupe_df.groupby(columns).apply(lambda x: x.index.tolist()): one
\* entry per key without NaN, holding the labels of its rows
exact_dupe_groups(flagged, cols) ==
    {[key |-> t,
      indices |-> index_list(
          masked(flagged,
                 [k \in 1..Len(flagged) |-> KeyTuple(flagged[k].vals, cols) = t]))] :
        t \in groupby_keys(flagged, cols)}

NoExactDuplicates(d) ==
    [raised |-> FALSE, summary_only |-> FALSE, groups |-> {},
     summary |-> [total_rows |-> Len(d), exact_duplicate_groups |-> 0,
                  exact_duplicate_records |-> 0]]

\* detect_exact_duplicates (lines 268-342).  The groups are kept as a set:
\* their numbering group_1, group_2, ... is not modelled.  When groupby
\* drops every duplicated row, apply runs over no group and what it
\* returns depends on the pandas build: an empty frame without columns,
\* whose to_dict() is {} (no group is reported), or an empty frame with the
\* data's columns (keeps_columns), whose to_dict() maps each column name
\* to {} so that df.iloc[{}] raises at line 322.
exact_duplicates_with_cutoff(d, cols, keeps_columns, cutoff) ==
    LET exact_dupes == duplicated_mask(d, cols)
        exact_dupe_df == masked(d, exact_dupes)
        found == exact_dupe_groups(exact_dupe_df, cols)
    IN  IF Len(cols) = 0 \/ exact_dupe_df = <<>> THEN NoExactDuplicates(d)
        ELSE IF Len(exact_dupe_df) > cutoff
        THEN [raised |-> FALSE, summary_only |-> TRUE, groups |-> {},
              summary |-> [total_rows |-> Len(d),
                           exact_duplicate_groups |->
                               Cardinality(groupby_keys(exact_dupe_df, cols)),
                           exact_duplicate_records |-> Len(exact_dupe_df)]]
        ELSE IF (found = {} /\ keeps_columns)
                \/ \E g \in found : iloc_raises(d, g.indices)
        THEN [NoExactDuplicates(d) EXCEPT !.raised = TRUE]
        ELSE [raised |-> FALSE, summary_only |-> FALSE,
              groups |->
                  {[key |-> g.key, count |-> Len(g.indices),
                    records |-> iloc_rows(d, first_n(g.indices, RecordsShown))] :
                      g \in found},
              summary |-> [total_rows |-> Len(d),
                           exact_duplicate_groups |-> Cardinality(found),
                           exact_duplicate_records |-> Len(exact_dupe_df)]]

\* detect_exact_duplicates with the cutoff of line 288
detect_exact_duplicates(d, cols, keeps_columns) ==
    exact_duplicates_with_cutoff(d, cols, keeps_columns, SummaryCutoff)

\* ---- fuzz.token_sort_ratio -------------------------------------------

\* str.strip()
RECURSIVE lstrip(_)
lstrip(s) == IF s # <<>> /\ Head(s) = SP THEN lstrip(Tail(s)) ELSE s

RECURSIVE rstrip(_)
rstrip(s) ==
    IF s # <<>> /\ s[Len(s)] = SP THEN rstrip(SubSeq(s, 1, Len(s) - 1)) ELSE s

strip(s) == rstrip(lstrip(s))

\* utils.full_process: characters that are no letters or digits become
\* spaces, the text is lower-cased and stripped.  The texts of this model
\* are lower-case letters and spaces.
full_process(s) == strip(s)

\* str.split(): the maximal runs of non-whitespace
split(s) ==
    LET RECURSIVE Scan(_, _)
        Scan(k, cur) ==
            IF k > Len(s) THEN (IF cur = <<>> THEN <<>> ELSE <<cur>>)
            ELSE IF s[k] = SP
            THEN (IF cur = <<>> THEN <<>> ELSE <<cur>>) \o Scan(k + 1, <<>>)
            ELSE Scan(k + 1, Append(cur, s[k]))
    IN  Scan(1, <<>>)

CharRank(c) == IF c = SP THEN 0 ELSE IF c = "a" THEN 1 ELSE 2

\* s < t for two strings
RECURSIVE str_less(_, _)
str_less(s, t) ==
    IF t = <<>> THEN FALSE
    ELSE IF s = <<>> THEN TRUE
    ELSE IF Head(s) = Head(t) THEN str_less(Tail(s), Tail(t))
    ELSE CharRank(Head(s)) < CharRank(Head(t))

\* sorted(tokens)
RECURSIVE sorted(_)
sorted(tokens) ==
    IF tokens = <<>> THEN <<>>
    ELSE LET rest == sorted(Tail(tokens))
             t == Head(tokens)
             before == SelectSeq(rest, LAMBDA x : str_less(x, t))
             after == SelectSeq(rest, LAMBDA x : ~ str_less(x, t))
         IN  before \o <<t>> \o after

process_and_sort(s) == strip(join(sorted(split(full_process(s)))))

token_sort_ratio(s1, s2) == ratio(process_and_sort(s1), process_and_sort(s2))

\* ---- detect_fuzzy_duplicates -----------------------------------------

\* sample_indices when len(df) <= max_rows_to_compare: df.index
sample_indices(d) == index_list(d)

\* df.index.difference([i]) when it is no longer than comparison_limit
potential_matches(d, label) == SelectSeq(index_list(d), LAMBDA l : l # label)

\* df.loc[label, '_combined_for_fuzzy']
fuzzy_text(d, cols, label) == combined_for_fuzzy(loc(d, label).vals, cols)

\* similarity >= similarity_threshold (line 393)
fuzzy_match(similarity, threshold) == similarity >= threshold

\* len(group) > 1 (line 397)
fuzzy_group_found(g) == Len(g) > 1

\* the summary of lines 411-412
fuzzy_summary(d, groups) ==
    [total_rows |-> Len(d),
     fuzzy_duplicate_groups |-> Len(groups),
     fuzzy_duplicate_records |-> SumSeq([k \in 1..Len(groups) |-> groups[k].count])]

NoFuzzyDuplicates ==
    [fuzzy_duplicates |-> <<>>,
     summary |-> [total_rows |-> 0, fuzzy_duplicate_groups |-> 0,
                  fuzzy_duplicate_records |-> 0]]

StrategyThresholds == {100, 85, 90, 80}

CleanIdle ==
    /\ df = <<>>
    /\ pc = "idle"
    /\ auto_apply = FALSE
    /\ review_threshold = 85
    /\ operations_performed = <<>>
    /\ cleaning_summary = NoSummary
    /\ duplicate_results = NoDuplicateResults
    /\ columns = AllColumns
    /\ similarity_threshold = 90
    /\ i = 0
    /\ j = 0
    /\ group = <<>>
    /\ processed_indices = {}
    /\ similar_groups = <<>>
    /\ fuzzy_results = NoFuzzyResults

ProfileIdle ==
    /\ profile_pc = "idle"
    /\ profile_df = <<>>
    /\ strategy_columns = AllColumns
    /\ exact_duplicates = NoExactDuplicates(<<>>)
    /\ string_columns = AllColumns
    /\ profile_threshold = 90
    /\ anchor_pos = 1
    /\ match_pos = 1
    /\ fuzzy_group = <<>>
    /\ fuzzy_processed = {}
    /\ fuzzy_groups = <<>>
    /\ fuzzy_duplicates = NoFuzzyDuplicates

\* pd.read_csv (line 33) and the parameters of the call
ProfileInit ==
    /\ profile_pc = "start"
    /\ profile_df \in {Frame(rows) : rows \in Datasets}
    /\ strategy_columns \in ColumnChoices
    /\ exact_duplicates = NoExactDuplicates(<<>>)
    /\ string_columns = AllColumns
    /\ profile_threshold \in SimilarityThresholds
    /\ anchor_pos = 1
    /\ match_pos = 1
    /\ fuzzy_group = <<>>
    /\ fuzzy_processed = {}
    /\ fuzzy_groups = <<>>
    /\ fuzzy_duplicates = NoFuzzyDuplicates

\* line 174: the whole file is analysed at once
ProfileExact ==
    /\ profile_pc = "start"
    /\ \E keeps_columns \in BOOLEAN :
          LET r == detect_exact_duplicates(profile_df, strategy_columns,
                                           keeps_columns)
          IN  /\ ~ r.raised
              /\ exact_duplicates' = r
    /\ profile_pc' = "exact_done"
    /\ UNCHANGED <<profile_df, strategy_columns, string_columns,
                   profile_threshold, anchor_pos, match_pos, fuzzy_group,
                   fuzzy_processed, fuzzy_groups, fuzzy_duplicates>>
    /\ UNCHANGED <<oskarVars, jamesVars, extraVars>>

\* line 174 raises; profile_csv returns {"error": ...} (line 265)
ProfileExactError ==
    /\ profile_pc = "start"
    /\ \E keeps_columns \in BOOLEAN :
          detect_exact_duplicates(profile_df, strategy_columns,
                                  keeps_columns).raised
    /\ profile_pc' = "error"
    /\ UNCHANGED <<profile_df, strategy_columns, exact_duplicates,
                   string_columns, profile_threshold, anchor_pos, match_pos,
                   fuzzy_group, fuzzy_processed, fuzzy_groups,
                   fuzzy_duplicates>>
    /\ UNCHANGED <<oskarVars, jamesVars, extraVars>>

\* lines 179-180: the best strategy has threshold 100, so no fuzzy analysis
ProfileNoFuzzy ==
    /\ profile_pc = "exact_done"
    /\ \E threshold \in StrategyThresholds : ~ (threshold < 100)
    /\ profile_pc' = "done"
    /\ UNCHANGED <<profile_df, strategy_columns, exact_duplicates,
                   string_columns, profile_threshold, anchor_pos, match_pos,
                   fuzzy_group, fuzzy_processed, fuzzy_groups,
                   fuzzy_duplicates>>
    /\ UNCHANGED <<oskarVars, jamesVars, extraVars>>

\* lines 179-188 and 347-367: detect_fuzzy_duplicates is called on df
ProfileFuzzyBegin ==
    /\ profile_pc = "exact_done"
    /\ \E threshold \in StrategyThresholds : threshold < 100
    /\ string_columns' = strategy_columns
    /\ anchor_pos' = 1
    /\ fuzzy_processed' = {}
    /\ fuzzy_groups' = <<>>
    /\ profile_pc' = "outer"
    /\ UNCHANGED <<profile_df, strategy_columns, exact_duplicates,
                   profile_threshold, match_pos, fuzzy_group, fuzzy_duplicates>>
    /\ UNCHANGED <<oskarVars, jamesVars, extraVars>>

\* lines 370-372: the row is already in a group
FuzzyOuterSkip ==
    /\ profile_pc = "outer"
    /\ anchor_pos <= Len(sample_indices(profile_df))
    /\ sample_indices(profile_df)[anchor_pos] \in fuzzy_processed
    /\ anchor_pos' = anchor_pos + 1
    /\ UNCHANGED <<profile_pc, profile_df, strategy_columns, exact_duplicates,
                   string_columns, profile_threshold, match_pos, fuzzy_group,
                   fuzzy_processed, fuzzy_groups, fuzzy_duplicates>>
    /\ UNCHANGED <<oskarVars, jamesVars, extraVars>>

\* lines 370-381: the row becomes the anchor of a new group
FuzzyOuterAnchor ==
    /\ profile_pc = "outer"
    /\ anchor_pos <= Len(sample_indices(profile_df))
    /\ sample_indices(profile_df)[anchor_pos] \notin fuzzy_processed
    /\ fuzzy_group' = <<sample_indices(profile_df)[anchor_pos]>>
    /\ fuzzy_processed' =
          fuzzy_processed \cup {sample_indices(profile_df)[anchor_pos]}
    /\ match_pos' = 1
    /\ profile_pc' = "inner"
    /\ UNCHANGED <<profile_df, strategy_columns, exact_duplicates,
                   string_columns, profile_threshold, anchor_pos, fuzzy_groups,
                   fuzzy_duplicates>>
    /\ UNCHANGED <<oskarVars, jamesVars, extraVars>>

\* lines 383-385: the other row is already in a group
FuzzyInnerSkip ==
    /\ profile_pc = "inner"
    /\ match_pos <= Len(potential_matches(profile_df, fuzzy_group[1]))
    /\ potential_matches(profile_df, fuzzy_group[1])[match_pos] \in fuzzy_processed
    /\ match_pos' = match_pos + 1
    /\ UNCHANGED <<profile_pc, profile_df, strategy_columns, exact_duplicates,
                   string_columns, profile_threshold, anchor_pos, fuzzy_group,
                   fuzzy_processed, fuzzy_groups, fuzzy_duplicates>>
    /\ UNCHANGED <<oskarVars, jamesVars, extraVars>>

\* lines 387-395: one comparison of the anchor with another row
FuzzyInnerCompare ==
    /\ profile_pc = "inner"
    /\ match_pos <= Len(potential_matches(profile_df, fuzzy_group[1]))
    /\ LET other == potential_matches(profile_df, fuzzy_group[1])[match_pos]
           similarity ==
               token_sort_ratio(
                   fuzzy_text(profile_df, string_columns, fuzzy_group[1]),
                   fuzzy_text(profile_df, string_columns, other))
       IN  /\ other \notin fuzzy_processed
           /\ IF fuzzy_match(similarity, profile_threshold)
              THEN /\ fuzzy_group' = Append(fuzzy_group, other)
                   /\ fuzzy_processed' = fuzzy_processed \cup {other}
              ELSE UNCHANGED <<fuzzy_group, fuzzy_processed>>
    /\ match_pos' = match_pos + 1
    /\ UNCHANGED <<profile_pc, profile_df, strategy_columns, exact_duplicates,
                   string_columns, profile_threshold, anchor_pos, fuzzy_groups,
                   fuzzy_duplicates>>
    /\ UNCHANGED <<oskarVars, jamesVars, extraVars>>

\* lines 397-402: the inner loop is over; the group is kept if it has
\* more than one member
FuzzyInnerEnd ==
    /\ profile_pc = "inner"
    /\ match_pos > Len(potential_matches(profile_df, fuzzy_group[1]))
    /\ fuzzy_groups' =
          IF fuzzy_group_found(fuzzy_group)
          THEN Append(fuzzy_groups,
                      [count |-> Len(fuzzy_group),
                       similarity_threshold |-> profile_threshold,
                       records |-> iloc_rows(profile_df, fuzzy_group)])
          ELSE fuzzy_groups
    /\ anchor_pos' = anchor_pos + 1
    /\ profile_pc' = "outer"
    /\ UNCHANGED <<profile_df, strategy_columns, exact_duplicates,
                   string_columns, profile_threshold, match_pos, fuzzy_group,
                   fuzzy_processed, fuzzy_duplicates>>
    /\ UNCHANGED <<oskarVars, jamesVars, extraVars>>

\* lines 404-414 and 190: the result is formatted and returned
ProfileFuzzyEnd ==
    /\ profile_pc = "outer"
    /\ anchor_pos > Len(sample_indices(profile_df))
    /\ fuzzy_duplicates' =
          [fuzzy_duplicates |-> fuzzy_groups,
           summary |-> fuzzy_summary(profile_df, fuzzy_groups)]
    /\ profile_pc' = "done"
    /\ UNCHANGED <<profile_df, strategy_columns, exact_duplicates,
                   string_columns, profile_threshold, anchor_pos, match_pos,
                   fuzzy_group, fuzzy_processed, fuzzy_groups>>
    /\ UNCHANGED <<oskarVars, jamesVars, extraVars>>

\* ======================================================================
\* james.py: validate_and_check_duplicates
\* ======================================================================

\* the similarity thresholds tried (the default is 100)
JamesThresholds == {50, 100}

\* the key_fields tried: none given, columns 1 and 2, and column 3, which
\* neither dataset has
KeyFieldChoices == {<<>>, <<1>>, <<2>>, <<1, 2>>, <<1, 3>>}

\* the column orders of the mapped file tried
MappedColumnChoices == {<<1, 2>>, <<2, 1>>}

\* the columns of the target file tried: both, or column 1 alone
TargetColumnChoices == {<<1, 2>>, <<1>>}

\* the rows of the mapped and the target file tried
JamesRowValues == RowValues \ {<<<<SP>>, NaN>>}

DuplicateHandling == {"ask", "skip", "overwrite", "append"}

\* no key_fields given: the columns of mapped_data that target_data has too
common_columns ==
    SelectSeq(mapped_columns, LAMBDA col : col \in Range(target_columns))

\* the key fields that are columns of both datasets
validate_keys(keys) ==
    SelectSeq(IF keys = <<>> THEN common_columns ELSE keys,
              LAMBDA k : k \in Range(mapped_columns) /\ k \in Range(target_columns))

\* str(value) if not pd.isna(value) else ""
value_str(v) == IF isna(v) THEN <<>> ELSE v

\* the sum of fuzz.ratio over the key fields, and their number
field_similarities(source_vals, target_vals, keys) ==
    [k \in 1..Len(keys) |->
        ratio(value_str(source_vals[keys[k]]), value_str(target_vals[keys[k]]))]

avg_similarity(source_vals, target_vals, keys) ==
    [sum |-> SumSeq(field_similarities(source_vals, target_vals, keys)),
     n   |-> Len(keys)]

\* mutant: an equal score replaces the best match
higher_or_equal(avg, highest) == avg.sum * highest.n >= highest.sum * avg.n

\* avg_similarity > highest_similarity
higher(avg, highest) == avg.sum * highest.n > highest.sum * avg.n

\* the loop over target_data.iterrows() from place t on
RECURSIVE scan_targets(_, _, _, _, _)
scan_targets(source_vals, target, keys, t, best) ==
    IF t > Len(target) THEN best
    ELSE LET avg == avg_similarity(source_vals, target[t].vals, keys)
         IN  scan_targets(source_vals, target, keys, t + 1,
                 IF higher(avg, best.highest_similarity)
                 THEN [highest_similarity |-> avg, best_match |-> t - 1]
                 ELSE best)

NoMatch == [highest_similarity |-> [sum |-> 0, n |-> 1], best_match |-> -1]

\* mutant: the threshold taken as a strict bound
is_duplicate_strict(highest, threshold) == highest.sum > threshold * highest.n

\* a sequence back to front
Reverse(s) == [k \in 1..Len(s) |-> s[Len(s) + 1 - k]]

\* similarity_score a < similarity_score b
score_less(a, b) == a.sum * b.n < b.sum * a.n

\* the place of record x in records sorted by ascending score, after the
\* records of an equal score
RECURSIVE insert_sorted(_, _)
insert_sorted(records, x) ==
    IF records = <<>> THEN <<x>>
    ELSE IF score_less(x.similarity_score, Head(records).similarity_score)
    THEN <<x>> \o records
    ELSE <<Head(records)>> \o insert_sorted(Tail(records), x)

\* records by ascending score; for frames this small numpy's default sort
\* is an insertion sort, which keeps equal scores in order
RECURSIVE argsort(_)
argsort(records) ==
    IF records = <<>> THEN <<>>
    ELSE insert_sorted(argsort(SubSeq(records, 1, Len(records) - 1)),
                       records[Len(records)])

\* mutant: the duplicates left in the order they were found
sort_values_none(records) == records

\* duplicates_df.sort_values(by="similarity_score", ascending=False):
\* pandas reverses the rows, sorts ascending and reverses the outcome
sort_values(records) == Reverse(argsort(Reverse(records)))

\* highest_similarity >= similarity_threshold
is_duplicate(highest, threshold) == highest.sum >= threshold * highest.n

NoJamesResults ==
    [error |-> FALSE, duplicate_handling |-> "none", status |-> "none",
     duplicates_found |-> FALSE,
     duplicate_count |-> 0, unique_count |-> 0,
     duplicates_df |-> <<>>, unique_df |-> <<>>,
     has_final_output |-> FALSE, final_output |-> <<>>,
     provided_keys |-> <<>>, mapped_columns |-> <<>>, target_columns |-> <<>>]

JamesIdle ==
    /\ james_pc = "idle"
    /\ mapped_columns = <<>>
    /\ target_columns = <<>>
    /\ mapped_data = <<>>
    /\ target_data = <<>>
    /\ key_fields = <<>>
    /\ valid_keys = <<>>
    /\ james_threshold = 100
    /\ source_idx = 0
    /\ highest_similarity = NoMatch.highest_similarity
    /\ best_match = NoMatch.best_match
    /\ duplicates = <<>>
    /\ unique_records = <<>>
    /\ james_results = NoJamesResults

JamesInit ==
    /\ james_pc = "start"
    /\ mapped_columns \in MappedColumnChoices
    /\ target_columns \in TargetColumnChoices
    /\ mapped_data \in
          {Frame(rows) : rows \in UNION {[1..n -> JamesRowValues] : n \in 0..MaxMapped}}
    /\ target_data \in
          {Frame(rows) : rows \in UNION {[1..n -> JamesRowValues] : n \in 0..MaxTarget}}
    /\ key_fields \in KeyFieldChoices
    /\ james_threshold \in JamesThresholds
    /\ valid_keys = <<>>
    /\ source_idx = 0
    /\ highest_similarity = NoMatch.highest_similarity
    /\ best_match = NoMatch.best_match
    /\ duplicates = <<>>
    /\ unique_records = <<>>
    /\ james_results = NoJamesResults

\* key fields found in both datasets: the loop over mapped_data begins
JamesValidKeys ==
    /\ james_pc = "start"
    /\ validate_keys(key_fields) # <<>>
    /\ valid_keys' = validate_keys(key_fields)
    /\ james_pc' = "rows"
    /\ UNCHANGED <<mapped_columns, target_columns, mapped_data, target_data,
                   key_fields, james_threshold,
                   source_idx, highest_similarity, best_match, duplicates,
                   unique_records, james_results>>
    /\ UNCHANGED fileVars
    /\ UNCHANGED <<oskarVars, profileVars, rolesVars, columnVars, sampleVars,
                   mikeVars, sseVars>>

\* "No valid key fields found in both datasets"
JamesNoValidKeys ==
    /\ james_pc = "start"
    /\ validate_keys(key_fields) = <<>>
    /\ james_results' =
          [NoJamesResults EXCEPT !.error = TRUE,
                                 !.provided_keys = key_fields,
                                 !.mapped_columns = mapped_columns,
                                 !.target_columns = target_columns]
    /\ james_pc' = "error"
    /\ UNCHANGED <<mapped_columns, target_columns, mapped_data, target_data,
                   key_fields, valid_keys,
                   james_threshold, source_idx, highest_similarity,
                   best_match, duplicates, unique_records>>
    /\ last_validate' = [ran |-> TRUE, classified |-> FALSE, unique |-> <<>>,
           duplicates |-> <<>>]
    /\ james_calls' = james_calls + 1
    /\ UNCHANGED <<unique_file, transfer>>
    /\ UNCHANGED <<oskarVars, profileVars, rolesVars, columnVars, sampleVars,
                   mikeVars, sseVars>>

\* one pass of the loop over mapped_data.iterrows()
JamesRow ==
    /\ james_pc = "rows"
    /\ source_idx < Len(mapped_data)
    /\ LET source_row == iloc(mapped_data, source_idx)
           best == scan_targets(source_row.vals, target_data, valid_keys, 1, NoMatch)
       IN  /\ highest_similarity' = best.highest_similarity
           /\ best_match' = best.best_match
           /\ IF is_duplicate(best.highest_similarity, james_threshold)
              THEN /\ duplicates' =
                        Append(duplicates,
                               [vals |-> source_row.vals,
                                similarity_score |-> best.highest_similarity,
                                match_id |-> source_row.label])
                   /\ UNCHANGED unique_records
              ELSE /\ unique_records' = Append(unique_records, source_row)
                   /\ UNCHANGED duplicates
    /\ source_idx' = source_idx + 1
    /\ UNCHANGED <<james_pc, mapped_columns, target_columns, mapped_data,
                   target_data, key_fields, valid_keys,
                   james_threshold, james_results>>
    /\ UNCHANGED fileVars
    /\ UNCHANGED <<oskarVars, profileVars, rolesVars, columnVars, sampleVars,
                   mikeVars, sseVars>>

\* ---- identify_key_columns --------------------------------------------
UpperCase ==
    <<"A", "B", "C", "D", "E", "F", "G", "H", "I", "J", "K", "L", "M",
      "N", "O", "P", "Q", "R", "S", "T", "U", "V", "W", "X", "Y", "Z">>

LowerCase ==
    <<"a", "b", "c", "d", "e", "f", "g", "h", "i", "j", "k", "l", "m",
      "n", "o", "p", "q", "r", "s", "t", "u", "v", "w", "x", "y", "z">>

\* str.lower()
lower(s) ==
    [k \in 1..Len(s) |->
        IF \E u \in 1..Len(UpperCase) : UpperCase[u] = s[k]
        THEN LowerCase[CHOOSE u \in 1..Len(UpperCase) : UpperCase[u] = s[k]]
        ELSE s[k]]

\* pattern in s
contains(s, pattern) ==
    \E k \in 0..(Len(s) - Len(pattern)) :
        SubSeq(s, k + 1, k + Len(pattern)) = pattern

id_patterns ==
    << <<"i", "d">>, <<"k", "e", "y">>, <<"c", "o", "d", "e">>,
       <<"n", "u", "m", "b", "e", "r">>, <<"n", "r">>, <<"n", "o">> >>

name_parts ==
    << <<"n", "a", "m", "e">>, <<"f", "i", "r", "s", "t">>,
       <<"l", "a", "s", "t">>,
       <<"c", "u", "s", "t", "o", "m", "e", "r">>,
       <<"c", "l", "i", "e", "n", "t">>,
       <<"p", "e", "r", "s", "o", "n">> >>

\* df[col].nunique() < min(50, len(df) * 0.1), in tenths of a row
few_distinct(nunique, n) ==
    /\ nunique < 50
    /\ 10 * nunique < n

\* the name test ahead of the identifier test
column_role_name_first(c, n) ==
    LET col_lower == lower(c.name) IN
    IF \E k \in 1..Len(name_parts) : contains(col_lower, name_parts[k])
    THEN "name"
    ELSE IF \E k \in 1..Len(id_patterns) : contains(col_lower, id_patterns[k])
    THEN "identifier"
    ELSE IF c.dtype = "numeric"
    THEN "numerical"
    ELSE IF c.dtype = "string"
    THEN (IF few_distinct(c.nunique, n) THEN "categorical" ELSE "none")
    ELSE IF c.dtype = "datetime"
    THEN "date"
    ELSE "none"

\* the if/elif chain of the loop body: the list the column is appended to
column_role(c, n) ==
    LET col_lower == lower(c.name) IN
    IF \E k \in 1..Len(id_patterns) : contains(col_lower, id_patterns[k])
    THEN "identifier"
    ELSE IF \E k \in 1..Len(name_parts) : contains(col_lower, name_parts[k])
    THEN "name"
    ELSE IF c.dtype = "numeric"
    THEN "numerical"
    ELSE IF c.dtype = "string"
    THEN (IF few_distinct(c.nunique, n) THEN "categorical" ELSE "none")
    ELSE IF c.dtype = "datetime"
    THEN "date"
    ELSE "none"

\* the names of the columns of s, in order
column_names(s) == [k \in 1..Len(s) |-> s[k].name]

\* one list of the result: the columns appended to it, in df.columns order
role_list(s, n, role) ==
    column_names(SelectSeq(s, LAMBDA c : column_role(c, n) = role))

identify_key_columns(s, n) ==
    [identifier  |-> role_list(s, n, "identifier"),
     name        |-> role_list(s, n, "name"),
     date        |-> role_list(s, n, "date"),
     categorical |-> role_list(s, n, "categorical"),
     numerical   |-> role_list(s, n, "numerical")]

\* ---- suggest_duplicate_strategies ------------------------------------
IdThreshold == 100
NameThreshold == 85
NameCatThreshold == 90
AllStringThreshold == 80
StringColumnCap == 5
CategoricalCap == 2

\* lst[:n]
head(lst, n) == SubSeq(lst, 1, IF Len(lst) < n THEN Len(lst) ELSE n)

\* [col for col in df.columns if is_string_dtype(df[col])]
string_cols(s) == column_names(SelectSeq(s, LAMBDA c : c.dtype = "string"))

strategy_id(kc) ==
    IF kc.identifier # <<>>
    THEN << [name |-> "Exact ID match", columns |-> kc.identifier,
             threshold |-> IdThreshold] >>
    ELSE <<>>

strategy_name(kc) ==
    IF kc.name # <<>>
    THEN << [name |-> "Fuzzy name match", columns |-> kc.name,
             threshold |-> NameThreshold] >>
    ELSE <<>>

strategy_name_cat(kc) ==
    IF kc.name # <<>> /\ kc.categorical # <<>>
    THEN << [name |-> "Name + Category match",
             columns |-> kc.name \o head(kc.categorical, CategoricalCap),
             threshold |-> NameCatThreshold] >>
    ELSE <<>>

strategy_all_string(s) ==
    IF string_cols(s) # <<>>
    THEN << [name |-> "All text fields",
             columns |-> head(string_cols(s), StringColumnCap),
             threshold |-> AllStringThreshold] >>
    ELSE <<>>

\* the name strategy ahead of the identifier strategy
suggest_name_first(s, kc) ==
    strategy_name(kc) \o strategy_id(kc) \o strategy_name_cat(kc)
        \o strategy_all_string(s)

suggest_duplicate_strategies(s, kc) ==
    strategy_id(kc) \o strategy_name(kc) \o strategy_name_cat(kc)
        \o strategy_all_string(s)

\* ---- the schemas profiled --------------------------------------------
MaxColumns == 2
WideColumns == 6

ColumnNames ==
    { <<"I", "D">>, <<"N", "a", "m", "e">>,
      <<"c", "u", "s", "t", "o", "m", "e", "r", "_", "i", "d">>,
      <<"n", "o", "t", "e", "s">>, <<"c", "i", "t", "y">>,
      <<"a", "m", "o", "u", "n", "t">> }

RowCounts == {5, 20, 600}
DistinctCounts == {1, 2, 49, 50}

\* a numeric or datetime column's nunique() is not read past the name tests
ColumnKinds(n) ==
    { c \in [name : ColumnNames, dtype : {"string"}, nunique : DistinctCounts] :
        c.nunique <= n }
    \cup [name : ColumnNames, dtype : {"numeric", "datetime"}, nunique : {1}]

Digits == <<"1", "2", "3", "4", "5", "6", "7", "8", "9">>

\* the columns of a wide file: four kinds of column, numbered by position
WideKinds ==
    { [name |-> <<"c", "o", "d", "e">>, dtype |-> "string", nunique |-> 50],
      [name |-> <<"c", "i", "t", "y">>, dtype |-> "string", nunique |-> 2],
      [name |-> <<"f", "i", "r", "s", "t">>, dtype |-> "string", nunique |-> 50],
      [name |-> <<"a", "m", "o", "u", "n", "t">>, dtype |-> "numeric", nunique |-> 1] }

numbered(s) ==
    [k \in 1..Len(s) |-> [s[k] EXCEPT !.name = @ \o <<Digits[k]>>]]

distinct_names(s) ==
    \A a, b \in 1..Len(s) : s[a].name = s[b].name => a = b

NoKeyColumns ==
    [identifier |-> <<>>, name |-> <<>>, date |-> <<>>,
     categorical |-> <<>>, numerical |-> <<>>]

RolesIdle ==
    /\ roles_pc = "idle"
    /\ schema = <<>>
    /\ row_count = 0
    /\ key_columns = NoKeyColumns
    /\ duplicate_strategies = <<>>

RolesInit ==
    /\ roles_pc = "start"
    /\ row_count \in RowCounts
    /\ \/ \E w \in 0..MaxColumns : \E s \in [1..w -> ColumnKinds(row_count)] :
            /\ distinct_names(s)
            /\ schema = s
       \/ \E w \in (MaxColumns + 1)..WideColumns : \E s \in [1..w -> WideKinds] :
            /\ \A k \in 1..w : s[k].nunique <= row_count
            /\ schema = numbered(s)
    /\ key_columns = NoKeyColumns
    /\ duplicate_strategies = <<>>

IdentifyKeyColumns ==
    /\ roles_pc = "start"
    /\ key_columns' = identify_key_columns(schema, row_count)
    /\ roles_pc' = "identified"
    /\ UNCHANGED <<schema, row_count, duplicate_strategies>>
    /\ UNCHANGED <<oskarVars, profileVars, jamesVars, columnVars, sampleVars, mikeVars, fileVars, sseVars>>

SuggestDuplicateStrategies ==
    /\ roles_pc = "identified"
    /\ duplicate_strategies' = suggest_duplicate_strategies(schema, key_columns)
    /\ roles_pc' = "suggested"
    /\ UNCHANGED <<schema, row_count, key_columns>>
    /\ UNCHANGED <<oskarVars, profileVars, jamesVars, columnVars, sampleVars, mikeVars, fileVars, sseVars>>


\* ======================================================================
\* oskar.py: handle_missing_values and standardize_capitalization, and the
\* two branches of clean_data's task loop that call them, on a file with a
\* text column (1) and a number column (2). A number is a reduced fraction
\* <<p, q>>, so that a mean and the median of an even count are exact.
\* ======================================================================

RECURSIVE gcd(_, _)
gcd(a, b) == IF b = 0 THEN a ELSE gcd(b, a % b)

Frac(p, q) == IF p = 0 THEN <<0, 1>> ELSE <<p \div gcd(p, q), q \div gcd(p, q)>>

frac_less(x, y) == x[1] * y[2] < y[1] * x[2]

\* the order of str: upper case before lower case
char_rank(c) ==
    IF \E u \in 1..Len(UpperCase) : UpperCase[u] = c
    THEN CHOOSE u \in 1..Len(UpperCase) : UpperCase[u] = c
    ELSE Len(UpperCase) + (CHOOSE u \in 1..Len(LowerCase) : LowerCase[u] = c)

RECURSIVE text_less(_, _)
text_less(s, t) ==
    IF t = <<>> THEN FALSE
    ELSE IF s = <<>> THEN TRUE
    ELSE IF Head(s) = Head(t) THEN text_less(Tail(s), Tail(t))
    ELSE char_rank(Head(s)) < char_rank(Head(t))

\* the order of the values of a column of the given dtype
value_less(dtype, x, y) ==
    IF dtype = "object" THEN text_less(x, y) ELSE frac_less(x, y)

\* df[column]
series(d, c) == [k \in 1..Len(d) |-> d[k].vals[c]]

\* series.dropna()
dropna_values(ser) == SelectSeq(ser, notna)

\* the values of a series in ascending order
sort_values_of(ser, dtype) ==
    LET RECURSIVE Sort(_)
        Sort(rest) ==
            IF rest = <<>> THEN <<>>
            ELSE LET tail == Sort(Tail(rest))
                     before == SelectSeq(tail, LAMBDA x : value_less(dtype, x, Head(rest)))
                     after == SelectSeq(tail, LAMBDA x : ~ value_less(dtype, x, Head(rest)))
                 IN  before \o <<Head(rest)>> \o after
    IN  Sort(ser)

RECURSIVE frac_sum(_)
frac_sum(ser) ==
    IF ser = <<>> THEN <<0, 1>>
    ELSE LET rest == frac_sum(Tail(ser))
         IN  Frac(Head(ser)[1] * rest[2] + rest[1] * Head(ser)[2],
                  Head(ser)[2] * rest[2])

\* series.mean(): NaN for a series without a value
mean(ser) ==
    LET vs == dropna_values(ser) IN
    IF vs = <<>> THEN NaN
    ELSE Frac(frac_sum(vs)[1], frac_sum(vs)[2] * Len(vs))

\* series.median(): NaN for a series without a value
median(ser) ==
    LET vs == sort_values_of(dropna_values(ser), "float64")
        n == Len(vs)
    IN  IF n = 0 THEN NaN
        ELSE IF n % 2 = 1 THEN vs[(n + 1) \div 2]
        ELSE Frac(frac_sum(<<vs[n \div 2], vs[n \div 2 + 1]>>)[1],
                  frac_sum(<<vs[n \div 2], vs[n \div 2 + 1]>>)[2] * 2)

count_of(ser, v) == Cardinality({k \in 1..Len(ser) : ser[k] = v})

\* series.mode(): the most frequent values in ascending order, NaN left out
mode(ser, dtype) ==
    LET vs == dropna_values(ser)
        top == {v \in Range(vs) : \A w \in Range(vs) : count_of(vs, w) <= count_of(vs, v)}
        RECURSIVE Ascending(_)
        Ascending(S) ==
            IF S = {} THEN <<>>
            ELSE LET least == CHOOSE v \in S : \A w \in S : ~ value_less(dtype, w, v)
                 IN  <<least>> \o Ascending(S \ {least})
    IN  Ascending(top)

is_numeric_dtype(dtype) == dtype = "float64"

\* cleaned_df[column].fillna(value): fillna(NaN) fills nothing
fillna(d, c, value) ==
    IF isna(value) THEN d
    ELSE [k \in 1..Len(d) |->
            IF isna(d[k].vals[c]) THEN [d[k] EXCEPT !.vals[c] = value] ELSE d[k]]

\* cleaned_df.dropna(subset=[column])
dropna(d, c) == SelectSeq(d, LAMBDA r : notna(r.vals[c]))

\* the strategy 'auto' stands for (lines 436-445): no column of a file read
\* by pd.read_csv without parse_dates is datetime64
resolve_strategy(strategy, dtype) ==
    IF strategy # "auto" THEN strategy
    ELSE IF is_numeric_dtype(dtype) THEN "median"
    ELSE "mode"

handle_missing_values(d, c, strategy, dtype) ==
    LET missing_count == Cardinality({k \in 1..Len(d) : isna(d[k].vals[c])})
        used == resolve_strategy(strategy, dtype)
        numeric == is_numeric_dtype(dtype)
        filled(cleaned, n) ==
            [cleaned_df |-> cleaned, strategy_used |-> used, values_filled |-> n]
    IN  IF missing_count = 0
        THEN [cleaned_df |-> d, strategy_used |-> "none", values_filled |-> 0]
        ELSE IF used = "remove"
        THEN filled(dropna(d, c), missing_count)
        ELSE IF used = "mean" /\ numeric
        THEN filled(fillna(d, c, mean(series(d, c))), missing_count)
        ELSE IF used = "median" /\ numeric
        THEN filled(fillna(d, c, median(series(d, c))), missing_count)
        ELSE IF used = "mode"
        THEN (IF mode(series(d, c), dtype) # <<>>
              THEN filled(fillna(d, c, mode(series(d, c), dtype)[1]), missing_count)
              ELSE filled(d, 0))
        ELSE IF used = "zero" /\ numeric
        THEN filled(fillna(d, c, <<0, 1>>), missing_count)
        ELSE filled(d, 0)

\* ---- standardize_capitalization --------------------------------------

\* pd.api.types.is_string_dtype(df[column]): an object column that holds a
\* NaN is a string column for some pandas releases and none for others
\* (object_is_string)
is_string_dtype(d, c, dtype, object_is_string) ==
    /\ dtype = "object"
    /\ object_is_string \/ \A k \in 1..Len(d) : notna(d[k].vals[c])

\* series.nunique()
nunique(ser) == Cardinality(Range(dropna_values(ser)))

\* the capitalization maps the first loop may build: for each lower-cased
\* value one of its most frequent spellings (value_counts().index[0]; the
\* order value_counts gives equally frequent spellings is not fixed)
capitalization_maps(ser) ==
    LET vs == dropna_values(ser)
        keys == {lower(v) : v \in Range(vs)}
        matches(key) == SelectSeq(vs, LAMBDA v : lower(v) = key)
        most_common(key) ==
            {v \in Range(matches(key)) :
                \A w \in Range(matches(key)) :
                    count_of(matches(key), w) <= count_of(matches(key), v)}
    IN  {m \in [keys -> Range(vs)] : \A key \in keys : m[key] \in most_common(key)}

\* cleaned_df.at[label, column] = value: a label the index lacks is added
\* as a new row, NaN in its other columns
at_set(d, label, c, value) ==
    IF label \in Labels(d)
    THEN [k \in 1..Len(d) |->
            IF d[k].label = label THEN [d[k] EXCEPT !.vals[c] = value] ELSE d[k]]
    ELSE Append(d, [label |-> label,
                    vals |-> [x \in 1..Len(d[1].vals) |-> IF x = c THEN value ELSE NaN]])

\* the second loop: enumerate() counts positions, .at takes the count as a
\* label. The value read at a position is the one the column held at the
\* start, or the one an earlier .at wrote there when the iterated column
\* shares its memory with the frame: both outcomes are kept.
apply_mapping(d, c, m) ==
    LET n == Len(d)
        written(f, p, val) ==
            IF notna(val) /\ lower(val) \in DOMAIN m /\ val # m[lower(val)]
            THEN at_set(f, p, c, m[lower(val)])
            ELSE f
        RECURSIVE Loop(_, _)
        Loop(p, frames) ==
            IF p = n THEN frames
            ELSE Loop(p + 1,
                      UNION {{written(f, p, val) :
                                 val \in {d[p + 1].vals[c], f[p + 1].vals[c]}} :
                             f \in frames})
    IN  Loop(0, {d})

\* every result the call may return
standardize_capitalization(d, c, dtype, object_is_string) ==
    IF ~ is_string_dtype(d, c, dtype, object_is_string)
    THEN {[cleaned_df |-> d, values_standardized |-> 0]}
    ELSE {[cleaned_df |-> f,
           values_standardized |-> nunique(series(d, c)) - nunique(series(f, c))] :
             f \in UNION {apply_mapping(d, c, m) : m \in capitalization_maps(series(d, c))}}

\* ---- clean_data: the two column tasks --------------------------------
ColumnRows == 3

ColumnRowValues ==
    {<<<<"a">>, <<2, 1>>>>, <<<<"A">>, <<4, 1>>>>, <<<<"a">>, NaN>>,
     <<NaN, <<4, 1>>>>, <<<<"b">>, NaN>>}

ColumnFiles == UNION {[1..n -> ColumnRowValues] : n \in 1..ColumnRows}

Strategies == {"auto", "remove", "mean", "median", "mode", "zero"}

\* the dtypes pd.read_csv infers: a column without a value is float64,
\* a column holding a text is object
read_dtypes(rows) ==
    [c \in 1..2 |->
        IF c = 1 /\ \E k \in 1..Len(rows) : notna(rows[k][c])
        THEN "object" ELSE "float64"]

NoColumnCall ==
    [task |-> "none", column |-> 0, strategy |-> "none", input |-> <<>>,
     input_after |-> <<>>, results |-> <<>>]

ColumnsIdle ==
    /\ dtypes = <<>>
    /\ column_call = NoColumnCall

\* pd.read_csv and the initial `results` (lines 26-46)
ColumnsInit ==
    /\ \E rows \in ColumnFiles :
          /\ df = Frame(rows)
          /\ dtypes = read_dtypes(rows)
    /\ column_call = NoColumnCall
    /\ pc = "tasks"
    /\ auto_apply = FALSE
    /\ review_threshold = 85
    /\ operations_performed = <<>>
    /\ cleaning_summary = NoSummary
    /\ duplicate_results = NoDuplicateResults
    /\ columns = AllColumns
    /\ similarity_threshold = 90
    /\ i = 0
    /\ j = 0
    /\ group = <<>>
    /\ processed_indices = {}
    /\ similar_groups = <<>>
    /\ fuzzy_results = NoFuzzyResults

\* task_type == "handle_missing_values" (lines 103-118); a task without a
\* column is passed over
TaskHandleMissingValues ==
    /\ pc = "tasks"
    /\ dtypes # <<>>
    /\ Len(operations_performed) < MaxTasks
    /\ \E c \in 1..2, strategy \in Strategies :
          LET r == handle_missing_values(df, c, strategy, dtypes[c])
          IN  /\ df' = r.cleaned_df
              /\ column_call' =
                    [task |-> "handle_missing_values", column |-> c,
                     strategy |-> strategy, input |-> df, input_after |-> df,
                     results |-> r]
              /\ cleaning_summary' =
                    [cleaning_summary EXCEPT !.rows_affected = @ + r.values_filled]
              /\ operations_performed' =
                    Append(operations_performed,
                           IF c = 1 THEN "Handled missing values in 1"
                           ELSE "Handled missing values in 2")
    /\ UNCHANGED <<pc, auto_apply, review_threshold, duplicate_results,
                   fuzzyLocals, dtypes>>
    /\ UNCHANGED <<profileVars, jamesVars, rolesVars, sampleVars, mikeVars, fileVars, sseVars>>

\* task_type == "standardize_capitalization" (lines 121-135)
TaskStandardizeCapitalization ==
    /\ pc = "tasks"
    /\ dtypes # <<>>
    /\ Len(operations_performed) < MaxTasks
    /\ \E c \in 1..2, object_is_string \in BOOLEAN :
       \E r \in standardize_capitalization(df, c, dtypes[c], object_is_string) :
          /\ df' = r.cleaned_df
          /\ column_call' =
                [task |-> "standardize_capitalization", column |-> c,
                 strategy |-> "none", input |-> df, input_after |-> df,
                 results |-> r]
          /\ cleaning_summary' =
                [cleaning_summary EXCEPT !.rows_affected = @ + r.values_standardized]
          /\ operations_performed' =
                Append(operations_performed,
                       IF c = 1 THEN "Standardized capitalization in 1"
                       ELSE "Standardized capitalization in 2")
    /\ UNCHANGED <<pc, auto_apply, review_threshold, duplicate_results,
                   fuzzyLocals, dtypes>>
    /\ UNCHANGED <<profileVars, jamesVars, rolesVars, sampleVars, mikeVars, fileVars, sseVars>>


\* ======================================================================
\* emma.py: detect_fuzzy_duplicates (lines 345-415) on a file longer than
\* its two sampling caps. SampleCap rows stand for the 500 anchors of line
\* 366 and CompareCap rows for the 100 neighbours of line 377. The call is
\* made twice on the same file; np.random.choice draws from numpy's global
\* generator, which nothing in the repository seeds.
\* ======================================================================
SampleCap == 3
CompareCap == 2

SampledRowValues == {<<<<"a">>, NaN>>, <<<<"a">>, <<"b">>>>}

SampledFiles == UNION {[1..n -> SampledRowValues] : n \in 1..MaxRows}

Min(a, b) == IF a < b THEN a ELSE b

\* np.random.choice(population, size=size, replace=False): any `size`
\* distinct members in any order
random_choice(population, size) ==
    {s \in [1..size -> Range(population)] :
        \A a, b \in 1..size : s[a] = s[b] => a = b}

\* lines 366-367
sampled_indices(d) ==
    LET max_rows_to_compare == Min(SampleCap, Len(d)) IN
    IF Len(d) > max_rows_to_compare
    THEN random_choice(index_list(d), max_rows_to_compare)
    ELSE {index_list(d)}

\* lines 377-381
sampled_matches(d, label) ==
    LET comparison_limit == Min(CompareCap, Len(d)) IN
    IF Len(potential_matches(d, label)) > comparison_limit
    THEN random_choice(potential_matches(d, label), comparison_limit)
    ELSE {potential_matches(d, label)}

\* lines 383-395: the inner loop over the neighbours drawn for an anchor
RECURSIVE compare_matches(_, _, _, _, _, _)
compare_matches(d, cols, threshold, matches, g, processed) ==
    IF matches = <<>> THEN [group |-> g, processed |-> processed]
    ELSE IF Head(matches) \in processed
    THEN compare_matches(d, cols, threshold, Tail(matches), g, processed)
    ELSE IF fuzzy_match(token_sort_ratio(fuzzy_text(d, cols, g[1]),
                                         fuzzy_text(d, cols, Head(matches))),
                        threshold)
    THEN compare_matches(d, cols, threshold, Tail(matches),
                         Append(g, Head(matches)), processed \cup {Head(matches)})
    ELSE compare_matches(d, cols, threshold, Tail(matches), g, processed)

NoRun == [fuzzy_duplicates |-> <<>>, summary |-> <<>>]

SampleIdle ==
    /\ run_sample = <<>>
    /\ first_run = NoRun

SampledInit ==
    /\ profile_pc = "sampled_start"
    /\ profile_df \in {Frame(rows) : rows \in SampledFiles}
    /\ strategy_columns = AllColumns
    /\ exact_duplicates = NoExactDuplicates(<<>>)
    /\ string_columns = AllColumns
    /\ profile_threshold \in SimilarityThresholds
    /\ anchor_pos = 1
    /\ match_pos = 1
    /\ fuzzy_group = <<>>
    /\ fuzzy_processed = {}
    /\ fuzzy_groups = <<>>
    /\ fuzzy_duplicates = NoFuzzyDuplicates
    /\ SampleIdle

\* lines 347-367: a call begins and draws its anchors
SampledBegin ==
    /\ profile_pc = "sampled_start"
    /\ run_sample' \in sampled_indices(profile_df)
    /\ fuzzy_processed' = {}
    /\ fuzzy_groups' = <<>>
    /\ profile_pc' = "sampled_outer"
    /\ UNCHANGED <<profile_df, strategy_columns, exact_duplicates,
                   string_columns, profile_threshold, anchor_pos, match_pos,
                   fuzzy_group, fuzzy_duplicates, first_run>>
    /\ UNCHANGED <<oskarVars, jamesVars, rolesVars, columnVars, mikeVars, fileVars, sseVars>>

\* lines 370-372: the anchor is in a group already
SampledSkip ==
    /\ profile_pc = "sampled_outer"
    /\ run_sample # <<>>
    /\ Head(run_sample) \in fuzzy_processed
    /\ run_sample' = Tail(run_sample)
    /\ UNCHANGED <<profile_pc, profile_df, strategy_columns, exact_duplicates,
                   string_columns, profile_threshold, anchor_pos, match_pos,
                   fuzzy_group, fuzzy_processed, fuzzy_groups, fuzzy_duplicates,
                   first_run>>
    /\ UNCHANGED <<oskarVars, jamesVars, rolesVars, columnVars, mikeVars, fileVars, sseVars>>

\* lines 374-402: one anchor, the neighbours drawn for it, its group
SampledAnchor ==
    /\ profile_pc = "sampled_outer"
    /\ run_sample # <<>>
    /\ Head(run_sample) \notin fuzzy_processed
    /\ \E matches \in sampled_matches(profile_df, Head(run_sample)) :
          LET r == compare_matches(profile_df, string_columns, profile_threshold,
                                   matches, <<Head(run_sample)>>,
                                   fuzzy_processed \cup {Head(run_sample)})
          IN  /\ fuzzy_group' = r.group
              /\ fuzzy_processed' = r.processed
              /\ fuzzy_groups' =
                    IF fuzzy_group_found(r.group)
                    THEN Append(fuzzy_groups,
                                [count |-> Len(r.group),
                                 similarity_threshold |-> profile_threshold,
                                 records |-> iloc_rows(profile_df, r.group)])
                    ELSE fuzzy_groups
    /\ run_sample' = Tail(run_sample)
    /\ UNCHANGED <<profile_pc, profile_df, strategy_columns, exact_duplicates,
                   string_columns, profile_threshold, anchor_pos, match_pos,
                   fuzzy_duplicates, first_run>>
    /\ UNCHANGED <<oskarVars, jamesVars, rolesVars, columnVars, mikeVars, fileVars, sseVars>>

\* ---- clean_data on a five-row file, auto-merge on ---------------------
\* rows that share the text of column 1 and differ in column 2
MergeRows == 5

MergeRowValues ==
    {<<<<"a">>, NaN>>, <<<<"a">>, <<"b">>>>, <<<<"b">>, NaN>>, <<<<"b">>, <<"b">>>>}

MergeFiles == UNION {[1..n -> MergeRowValues] : n \in 1..MergeRows}

\* pd.read_csv and the initial `results` (lines 26-46), auto_apply=True
MergeInit ==
    /\ df \in {Frame(rows) : rows \in MergeFiles}
    /\ pc = "tasks"
    /\ auto_apply = TRUE
    /\ review_threshold = 85
    /\ operations_performed = <<>>
    /\ cleaning_summary = NoSummary
    /\ duplicate_results = NoDuplicateResults
    /\ columns = AllColumns
    /\ similarity_threshold = 90
    /\ i = 0
    /\ j = 0
    /\ group = <<>>
    /\ processed_indices = {}
    /\ similar_groups = <<>>
    /\ fuzzy_results = NoFuzzyResults

\* lines 404-414: the call returns; the first call is followed by a second
\* one on the same file
SampledReturn ==
    /\ profile_pc = "sampled_outer"
    /\ run_sample = <<>>
    /\ fuzzy_duplicates' =
          [fuzzy_duplicates |-> fuzzy_groups,
           summary |-> fuzzy_summary(profile_df, fuzzy_groups)]
    /\ IF first_run = NoRun
       THEN /\ first_run' = fuzzy_duplicates'
            /\ profile_pc' = "sampled_start"
       ELSE /\ first_run' = first_run
            /\ profile_pc' = "sampled_done"
    /\ UNCHANGED <<profile_df, strategy_columns, exact_duplicates,
                   string_columns, profile_threshold, anchor_pos, match_pos,
                   fuzzy_group, fuzzy_processed, fuzzy_groups, run_sample>>
    /\ UNCHANGED <<oskarVars, jamesVars, rolesVars, columnVars, mikeVars, fileVars, sseVars>>


\* ======================================================================
\* mike.py: migration_workflow (lines 372-940). A user_input is modelled by
\* what the branch of the current state reads of it: whether the path
\* exists and what it is, whether it names one of the listed files, whether
\* it parses as JSON and what the parsed value holds, whether it asks for a
\* new process.
\* ======================================================================
MikeAgents == {"steward", "emma", "oskar", "mathias", "james", "gina"}

AllPending == [a \in MikeAgents |-> "pending"]

\* context = {}
EmptyContext ==
    [source_file |-> FALSE, project_directory |-> FALSE, csv_files |-> FALSE,
     cleaned_file |-> FALSE, target |-> "none", mapping_file |-> FALSE,
     migration_directory |-> FALSE, report_file |-> FALSE, results |-> {},
     has_workflow_status |-> FALSE, workflow_status |-> AllPending]

\* the answers of an agent: a JSON object holding the key the branch looks
\* for, a JSON object without it, a JSON value that makes the branch raise
\* (a number has no `in`), or text that is no JSON
AgentAnswers == {"json_key", "json", "json_raises", "text"}

\* what the caller may send in a state
UserInputs(state) ==
    CASE state = "get_source_file" -> {"file", "dir_csv", "dir_empty", "missing"}
      [] state = "select_source_file" -> {"match", "no_match"}
      [] state \in {"steward_analysis", "emma_profiling", "mathias_mapping",
                    "james_migration", "gina_report"} -> AgentAnswers
      [] state = "oskar_cleaning" -> AgentAnswers \cup {"text_cleaned_exists"}
      [] state = "prepare_mapping" -> {"file", "description"}
      [] state = "get_mapping_file" -> {"file", "missing"}
      [] state = "get_migration_directory" -> {"dir", "file", "missing"}
      [] state = "completed" -> {"restart", "question"}
      [] OTHER -> {"any"}

parsed(input) == input \in {"json_key", "json", "json_raises"}

\* the branches that look into the parsed value; steward_analysis only
\* stores it
raises(state, input) ==
    /\ input = "json_raises"
    /\ state \in {"emma_profiling", "oskar_cleaning", "mathias_mapping",
                  "james_migration", "gina_report"}

\* the keys the call writes into the context dict
context_after(state, input, ctx) ==
    CASE state = "get_source_file" ->
            IF input = "file" THEN [ctx EXCEPT !.source_file = TRUE]
            ELSE IF input = "dir_csv"
            THEN [ctx EXCEPT !.project_directory = TRUE, !.csv_files = TRUE]
            ELSE IF input = "dir_empty"
            THEN [ctx EXCEPT !.project_directory = TRUE]
            ELSE ctx
      [] state = "select_source_file" ->
            IF input = "match" /\ ctx.csv_files
            THEN [ctx EXCEPT !.source_file = TRUE] ELSE ctx
      [] state = "steward_analysis" ->
            IF parsed(input) THEN [ctx EXCEPT !.results = @ \cup {"steward"}] ELSE ctx
      [] state = "emma_profiling" ->
            IF parsed(input) THEN [ctx EXCEPT !.results = @ \cup {"emma"}] ELSE ctx
      [] state = "oskar_cleaning" ->
            IF parsed(input)
            THEN [ctx EXCEPT !.results = @ \cup {"oskar"},
                             !.cleaned_file = @ \/ input = "json_key"]
            ELSE [ctx EXCEPT !.cleaned_file = @ \/ input = "text_cleaned_exists"]
      [] state = "prepare_mapping" ->
            [ctx EXCEPT !.target = IF input = "file" THEN "structure" ELSE "description"]
      [] state = "mathias_mapping" ->
            IF parsed(input)
            THEN [ctx EXCEPT !.results = @ \cup {"mathias"},
                             !.mapping_file = @ \/ input = "json_key"]
            ELSE ctx
      [] state = "get_mapping_file" ->
            IF input = "file" THEN [ctx EXCEPT !.mapping_file = TRUE] ELSE ctx
      [] state = "james_migration" ->
            IF parsed(input)
            THEN [ctx EXCEPT !.results = @ \cup {"james"},
                             !.migration_directory = @ \/ input = "json_key"]
            ELSE ctx
      [] state = "get_migration_directory" ->
            IF input = "dir" THEN [ctx EXCEPT !.migration_directory = TRUE] ELSE ctx
      [] state = "gina_report" ->
            IF parsed(input)
            THEN [ctx EXCEPT !.results = @ \cup {"gina"},
                             !.report_file = @ \/ input = "json_key"]
            ELSE ctx
      [] OTHER -> ctx

\* the writes to response["workflow_status"]
status_after(state, input, ws) ==
    CASE state = "get_source_file" /\ input = "file" ->
            [ws EXCEPT !["steward"] = "in_progress"]
      [] state = "select_source_file" /\ input = "match" ->
            [ws EXCEPT !["steward"] = "in_progress"]
      [] state = "steward_analysis" ->
            [ws EXCEPT !["steward"] = "completed", !["emma"] = "in_progress"]
      [] state = "emma_profiling" ->
            IF input = "json"
            THEN [ws EXCEPT !["emma"] = "completed", !["oskar"] = "skipped",
                            !["mathias"] = "in_progress"]
            ELSE IF input = "json_raises"
            THEN [ws EXCEPT !["emma"] = "completed"]
            ELSE [ws EXCEPT !["emma"] = "completed", !["oskar"] = "in_progress"]
      [] state = "oskar_cleaning" ->
            [ws EXCEPT !["oskar"] = "completed", !["mathias"] = "in_progress"]
      [] state = "mathias_mapping" ->
            [ws EXCEPT !["mathias"] = "completed", !["james"] = "in_progress"]
      [] state = "james_migration" ->
            [ws EXCEPT !["james"] = "completed", !["gina"] = "in_progress"]
      [] state = "gina_report" ->
            [ws EXCEPT !["gina"] = "completed"]
      [] OTHER -> ws

\* mutant: the answer of Steward leads straight to the mapping
next_state_skipping(state, input, ctx) ==
    CASE state = "start" -> "get_source_file"
      [] state = "get_source_file" ->
            IF input = "file" THEN "steward_analysis"
            ELSE IF input = "dir_csv" THEN "select_source_file"
            ELSE "get_source_file"
      [] state = "select_source_file" ->
            IF ctx.source_file THEN "steward_analysis" ELSE "select_source_file"
      [] state = "steward_analysis" -> "prepare_mapping"
      [] state = "emma_profiling" ->
            IF input = "json" THEN "prepare_mapping" ELSE "oskar_cleaning"
      [] state = "oskar_cleaning" -> "prepare_mapping"
      [] state = "prepare_mapping" -> "mathias_mapping"
      [] state = "mathias_mapping" ->
            IF ctx.mapping_file THEN "james_migration" ELSE "get_mapping_file"
      [] state = "get_mapping_file" ->
            IF input = "file" THEN "james_migration" ELSE "get_mapping_file"
      [] state = "james_migration" ->
            IF ctx.migration_directory THEN "gina_report"
            ELSE "get_migration_directory"
      [] state = "get_migration_directory" ->
            IF input = "dir" THEN "gina_report" ELSE "get_migration_directory"
      [] state = "gina_report" -> "completed"
      [] state = "completed" ->
            IF input = "restart" THEN "get_source_file" ELSE "completed"
      [] OTHER -> "start"

\* response["next_state"] of a call that does not raise; ctx is the context
\* as the branch left it
next_state(state, input, ctx) ==
    CASE state = "start" -> "get_source_file"
      [] state = "get_source_file" ->
            IF input = "file" THEN "steward_analysis"
            ELSE IF input = "dir_csv" THEN "select_source_file"
            ELSE "get_source_file"
      [] state = "select_source_file" ->
            IF input = "match" /\ ctx.csv_files
            THEN "steward_analysis" ELSE "select_source_file"
      [] state = "steward_analysis" -> "emma_profiling"
      [] state = "emma_profiling" ->
            IF input = "json" THEN "prepare_mapping" ELSE "oskar_cleaning"
      [] state = "oskar_cleaning" -> "prepare_mapping"
      [] state = "prepare_mapping" -> "mathias_mapping"
      [] state = "mathias_mapping" ->
            IF ctx.mapping_file THEN "james_migration" ELSE "get_mapping_file"
      [] state = "get_mapping_file" ->
            IF input = "file" THEN "james_migration" ELSE "get_mapping_file"
      [] state = "james_migration" ->
            IF ctx.migration_directory THEN "gina_report"
            ELSE "get_migration_directory"
      [] state = "get_migration_directory" ->
            IF input = "dir" THEN "gina_report" ELSE "get_migration_directory"
      [] state = "gina_report" -> "completed"
      [] state = "completed" ->
            IF input = "restart" THEN "get_source_file" ELSE "completed"
      [] OTHER -> "start"

NoResponse == [reported |-> FALSE, workflow_status |-> AllPending]

MikeIdle ==
    /\ mike_state = "idle"
    /\ context = EmptyContext
    /\ mike_call = [current_state |-> "none", user_input |-> "none"]
    /\ mike_response = NoResponse
    /\ mike_history = [trail |-> <<>>, done |-> {}]

\* the first call: current_state is "start" or a state the function does
\* not know; context is None or a dict in which the caller has put a
\* workflow_status
MikeInit ==
    /\ mike_state \in {"start", "resume"}
    /\ context \in {EmptyContext, [EmptyContext EXCEPT !.has_workflow_status = TRUE]}
    /\ mike_call = [current_state |-> "none", user_input |-> "none"]
    /\ mike_response = NoResponse
    /\ mike_history = [trail |-> <<mike_state>>, done |-> {}]

\* one call of migration_workflow and the caller taking over next_state
\* and context. response["workflow_status"] is the dict of the context
\* when the context holds one (line 409), a new dict otherwise; the
\* except branch (lines 924-936) returns no workflow_status and keeps the
\* current state.
MigrationWorkflow ==
    /\ mike_state # "idle"
    /\ \E input \in UserInputs(mike_state) :
          LET base == IF context.has_workflow_status
                      THEN context.workflow_status ELSE AllPending
              ws == status_after(mike_state, input, base)
              written == context_after(mike_state, input, context)
              ctx == IF context.has_workflow_status
                     THEN [written EXCEPT !.workflow_status = ws] ELSE written
              failed == raises(mike_state, input)
              restart == mike_state = "completed" /\ input = "restart"
              next == IF failed THEN mike_state
                      ELSE next_state(mike_state, input, ctx)
          IN  /\ mike_state' = next
              /\ context' = IF restart THEN EmptyContext ELSE ctx
              /\ mike_call' = [current_state |-> mike_state, user_input |-> input]
              /\ mike_response' =
                    IF failed THEN NoResponse
                    ELSE [reported |-> TRUE,
                          workflow_status |-> IF restart THEN AllPending ELSE ws]
              /\ mike_history' =
                    IF restart THEN [trail |-> <<next>>, done |-> {}]
                    ELSE [trail |-> IF next # mike_state
                                    THEN Append(mike_history.trail, next)
                                    ELSE mike_history.trail,
                          done |-> mike_history.done \cup
                                     {a \in MikeAgents :
                                         /\ ~ failed
                                         /\ ws[a] \in {"completed", "skipped"}}]
    /\ UNCHANGED <<oskarVars, profileVars, jamesVars, rolesVars, columnVars,
                   sampleVars, fileVars, sseVars>>

\* ---- process_duplicates and the files it shares with validate ---------

\* the calls made in a sequence
MaxCalls == 3

\* a field of a CSV file: a missing value is written as the empty field
to_csv_field(v) == IF isna(v) THEN <<>> ELSE v

\* frame.to_csv(path, index=False): the rows without their labels
to_csv(d) ==
    [k \in 1..Len(d) |->
        [c \in 1..Len(d[k].vals) |-> to_csv_field(d[k].vals[c])]]

\* pd.read_csv(path): the empty field is read as NaN, the rows are
\* labelled from 0
read_csv(rows) ==
    Frame([k \in 1..Len(rows) |->
              [c \in 1..Len(rows[k]) |->
                  IF rows[k][c] = <<>> THEN NaN ELSE rows[k][c]]])

\* the values of the rows of a frame, in order
row_values(d) == [k \in 1..Len(d) |-> d[k].vals]

NoFile == [exists |-> FALSE, rows |-> <<>>]

NoValidate ==
    [ran |-> FALSE, classified |-> FALSE, unique |-> <<>>, duplicates |-> <<>>]

NoTransfer ==
    [called |-> FALSE, error |-> FALSE, handling_option |-> "none",
     target |-> <<>>, total_records_transferred |-> 0,
     validated |-> NoValidate]

HandlingOptions == {"skip", "overwrite", "append"}

\* a duplicate_handling / handling_option the tools do not know
OtherHandling == "merge"

\* mutant: 'skip' transfers the mapped file even when the unique file exists
transferred_all(handling_option, file, mapped) == mapped

\* final_output of process_duplicates
transferred(handling_option, file, mapped) ==
    IF handling_option = "skip" /\ file.exists THEN read_csv(file.rows)
    ELSE IF handling_option \in {"overwrite", "append"} THEN mapped
    ELSE mapped

FilesIdle ==
    /\ unique_file = NoFile
    /\ last_validate = NoValidate
    /\ transfer = NoTransfer
    /\ james_calls = 0

\* the rows of the mapped file and the target files tried
TransferRowValues == {<<<<"a">>, NaN>>, <<<<"a">>, <<"b">>>>, <<NaN, <<"b">>>>}

TransferTargets == {Frame(<<>>), Frame(<< <<<<"a">>, <<"b">>>> >>)}

TransferKeyFields == {<<1>>, <<2>>}

TransferInit ==
    /\ james_pc = "start"
    /\ mapped_columns = <<1, 2>>
    /\ target_columns \in TargetColumnChoices
    /\ mapped_data \in
          {Frame(rows) : rows \in UNION {[1..n -> TransferRowValues] : n \in 0..MaxMapped}}
    /\ target_data \in TransferTargets
    /\ key_fields \in TransferKeyFields
    /\ james_threshold \in JamesThresholds
    /\ valid_keys = <<>>
    /\ source_idx = 0
    /\ highest_similarity = NoMatch.highest_similarity
    /\ best_match = NoMatch.best_match
    /\ duplicates = <<>>
    /\ unique_records = <<>>
    /\ james_results = NoJamesResults
    /\ FilesIdle

\* a further validate_and_check_duplicates call on the same mapped file
JamesCall ==
    /\ james_pc \in {"done", "error"}
    /\ james_calls < MaxCalls
    /\ james_pc' = "start"
    /\ target_columns' \in TargetColumnChoices
    /\ target_data' \in TransferTargets
    /\ key_fields' \in TransferKeyFields
    /\ james_threshold' \in JamesThresholds
    /\ valid_keys' = <<>>
    /\ source_idx' = 0
    /\ highest_similarity' = NoMatch.highest_similarity
    /\ best_match' = NoMatch.best_match
    /\ duplicates' = <<>>
    /\ unique_records' = <<>>
    /\ james_results' = NoJamesResults
    /\ UNCHANGED <<mapped_columns, mapped_data>>
    /\ UNCHANGED fileVars
    /\ UNCHANGED <<oskarVars, profileVars, rolesVars, columnVars, sampleVars,
                   mikeVars, sseVars>>

\* process_duplicates, called between two validate runs
ProcessDuplicates ==
    /\ james_pc \in {"start", "done", "error"}
    /\ james_calls < MaxCalls
    /\ \E handling_option \in HandlingOptions \cup {OtherHandling} :
          IF handling_option \notin HandlingOptions
          THEN /\ transfer' =
                    [NoTransfer EXCEPT !.called = TRUE, !.error = TRUE,
                                       !.handling_option = handling_option,
                                       !.validated = last_validate]
          ELSE LET final_output ==
                       transferred(handling_option, unique_file, mapped_data)
               IN  transfer' =
                       [called |-> TRUE, error |-> FALSE,
                        handling_option |-> handling_option,
                        target |-> to_csv(final_output),
                        total_records_transferred |-> Len(final_output),
                        validated |-> last_validate]
    /\ james_calls' = james_calls + 1
    /\ UNCHANGED <<unique_file, last_validate>>
    /\ UNCHANGED <<oskarVars, profileVars, jamesVars, rolesVars, columnVars,
                   sampleVars, mikeVars, sseVars>>

\* ---- server_with_sse.py: the /events stream ---------------------------

\* the clients that connect to /events and the events send_event enqueues
MaxClients == 2
MaxEvents == 2

SseClients == 1..MaxClients

\* what a /messages request comes to: no tool name, an unknown tool, a tool
\* that returns, a tool that raises
MessageOutcomes == {"no_tool", "not_found", "message_processed", "error"}

NoStream ==
    [state |-> "absent", client_queue |-> <<>>, disconnected |-> FALSE,
     received |-> <<>>]

SseIdle ==
    /\ event_queue = <<>>
    /\ streams = [c \in SseClients |-> NoStream]
    /\ sent = <<>>

\* the clients whose stream forwards events and who have not gone away
connected == {c \in SseClients : streams[c].state = "streaming"
                                    /\ ~ streams[c].disconnected}

\* send_event: event_queue.put(...)
send_event(queue, event) == Append(queue, event)

\* GET /events: the generator yields the 'connected' event
Connect ==
    /\ \E c \in SseClients :
          /\ streams[c].state = "absent"
          /\ streams' = [streams EXCEPT ![c].state = "greeted"]
    /\ UNCHANGED <<event_queue, sent>>
    /\ UNCHANGED <<oskarVars, profileVars, jamesVars, rolesVars, columnVars,
                   sampleVars, mikeVars, fileVars>>

\* the generator goes on: client_queue is created and forward_events started
StartForward ==
    /\ \E c \in SseClients :
          /\ streams[c].state = "greeted"
          /\ streams' = [streams EXCEPT ![c].state = "streaming",
                                        ![c].client_queue = <<>>]
    /\ UNCHANGED <<event_queue, sent>>
    /\ UNCHANGED <<oskarVars, profileVars, jamesVars, rolesVars, columnVars,
                   sampleVars, mikeVars, fileVars>>

\* POST /messages: the tool is looked up and run, and send_event enqueues
\* 'message_processed' or 'error'; the two early returns send nothing
PostMessage ==
    /\ \E outcome \in MessageOutcomes :
          IF outcome \in {"no_tool", "not_found"}
          THEN UNCHANGED <<event_queue, sent>>
          ELSE /\ Len(sent) < MaxEvents
               /\ LET event == [event |-> outcome, data |-> Len(sent) + 1]
                  IN  /\ event_queue' = send_event(event_queue, event)
                      /\ sent' = Append(sent, [event |-> event,
                                               audience |-> connected])
    /\ UNCHANGED streams
    /\ UNCHANGED <<oskarVars, profileVars, jamesVars, rolesVars, columnVars,
                   sampleVars, mikeVars, fileVars>>

\* one pass of a forward_events loop: whichever task the queue wakes takes
\* the event off event_queue and puts it on its own client_queue
ForwardEvents ==
    /\ event_queue # <<>>
    /\ \E c \in SseClients :
          /\ streams[c].state = "streaming"
          /\ streams' = [streams EXCEPT
                 ![c].client_queue = Append(@, Head(event_queue))]
    /\ event_queue' = Tail(event_queue)
    /\ UNCHANGED sent
    /\ UNCHANGED <<oskarVars, profileVars, jamesVars, rolesVars, columnVars,
                   sampleVars, mikeVars, fileVars>>

\* one pass of the generator loop: the event is yielded, and if the client
\* has gone away the loop ends and the forward task is cancelled
YieldEvent ==
    /\ \E c \in SseClients :
          /\ streams[c].state = "streaming"
          /\ streams[c].client_queue # <<>>
          /\ streams' = [streams EXCEPT
                 ![c].client_queue =
                     IF streams[c].disconnected THEN <<>> ELSE Tail(@),
                 ![c].received =
                     IF streams[c].disconnected THEN @
                     ELSE Append(@, Head(streams[c].client_queue)),
                 ![c].state =
                     IF streams[c].disconnected THEN "closed" ELSE @]
    /\ UNCHANGED <<event_queue, sent>>
    /\ UNCHANGED <<oskarVars, profileVars, jamesVars, rolesVars, columnVars,
                   sampleVars, mikeVars, fileVars>>

\* the client goes away; the generator looks at request.is_disconnected()
\* only after it has yielded an event
Disconnect ==
    /\ \E c \in SseClients :
          /\ streams[c].state \in {"greeted", "streaming"}
          /\ ~ streams[c].disconnected
          /\ streams' = [streams EXCEPT ![c].disconnected = TRUE]
    /\ UNCHANGED <<event_queue, sent>>
    /\ UNCHANGED <<oskarVars, profileVars, jamesVars, rolesVars, columnVars,
                   sampleVars, mikeVars, fileVars>>

\* the response of a client that has gone away is torn down while the
\* generator waits: the finally clause cancels the forward task
StreamClosed ==
    /\ \E c \in SseClients :
          /\ streams[c].state \in {"greeted", "streaming"}
          /\ streams[c].disconnected
          /\ streams' = [streams EXCEPT ![c].state = "closed",
                                        ![c].client_queue = <<>>]
    /\ UNCHANGED <<event_queue, sent>>
    /\ UNCHANGED <<oskarVars, profileVars, jamesVars, rolesVars, columnVars,
                   sampleVars, mikeVars, fileVars>>

ExtraIdle == RolesIdle /\ ColumnsIdle /\ SampleIdle /\ MikeIdle /\ FilesIdle /\ SseIdle

\* the results once every mapped row is classified
JamesFinish ==
    /\ james_pc = "rows"
    /\ source_idx = Len(mapped_data)
    /\ \E duplicate_handling \in DuplicateHandling \cup {OtherHandling} :
          /\ duplicates = <<>> \/ duplicate_handling \in DuplicateHandling
          /\ james_results' =
              [error |-> FALSE,
                  duplicate_handling |-> duplicate_handling,
                  status |-> IF duplicates # <<>> /\ duplicate_handling = "ask"
                             THEN "review_needed" ELSE "complete",
                  duplicates_found |-> Len(duplicates) > 0,
                  duplicate_count |-> Len(duplicates),
                  unique_count |-> Len(unique_records),
                  duplicates_df |-> sort_values(duplicates),
                  unique_df |-> unique_records,
                  has_final_output |->
                      ~ (duplicates # <<>> /\ duplicate_handling = "ask"),
                  final_output |->
                      IF duplicates # <<>> /\ duplicate_handling = "ask" THEN <<>>
                      ELSE IF duplicates # <<>> /\ duplicate_handling = "skip"
                      THEN unique_records
                      ELSE mapped_data,
                  provided_keys |-> <<>>,
                  mapped_columns |-> <<>>,
                  target_columns |-> <<>>]
    /\ james_pc' = "done"
    /\ UNCHANGED <<mapped_columns, target_columns, mapped_data, target_data,
                   key_fields, valid_keys,
                   james_threshold, source_idx, highest_similarity,
                   best_match, duplicates, unique_records>>
    /\ unique_file' = [exists |-> TRUE, rows |-> to_csv(unique_records)]
    /\ last_validate' =
          [ran |-> TRUE, classified |-> TRUE,
           unique |-> unique_records, duplicates |-> duplicates]
    /\ james_calls' = james_calls + 1
    /\ UNCHANGED transfer
    /\ UNCHANGED <<oskarVars, profileVars, rolesVars, columnVars, sampleVars,
                   mikeVars, sseVars>>

\* duplicates found and a duplicate_handling that is none of the four: the
\* duplicates and the unique file are written (lines 156-161), no branch
\* binds final_output, line 205 raises and the call returns {"error": ...}
JamesUnknownHandling ==
    /\ james_pc = "rows"
    /\ source_idx = Len(mapped_data)
    /\ duplicates # <<>>
    /\ james_results' =
          [NoJamesResults EXCEPT !.error = TRUE,
                                 !.duplicate_handling = OtherHandling]
    /\ james_pc' = "error"
    /\ unique_file' = [exists |-> TRUE, rows |-> to_csv(unique_records)]
    /\ last_validate' =
          [ran |-> TRUE, classified |-> TRUE,
           unique |-> unique_records, duplicates |-> duplicates]
    /\ james_calls' = james_calls + 1
    /\ UNCHANGED transfer
    /\ UNCHANGED <<mapped_columns, target_columns, mapped_data, target_data,
                   key_fields, valid_keys,
                   james_threshold, source_idx, highest_similarity,
                   best_match, duplicates, unique_records>>
    /\ UNCHANGED <<oskarVars, profileVars, rolesVars, columnVars, sampleVars,
                   mikeVars, sseVars>>

vars == <<oskarVars, profileVars, jamesVars, extraVars>>

Init ==
    \/ CleanInit /\ ProfileIdle /\ JamesIdle /\ ExtraIdle
    \/ CleanIdle /\ ProfileInit /\ JamesIdle /\ ExtraIdle
    \/ CleanIdle /\ ProfileIdle /\ JamesInit /\ ExtraIdle

Next ==
    \/ TaskRemoveExactDuplicates
    \/ TaskReviewFuzzyDuplicates
    \/ OuterSkip
    \/ OuterAnchor
    \/ InnerSkip
    \/ InnerCompare
    \/ InnerEnd
    \/ FuzzyFinish
    \/ FuzzyDropKeyError
    \/ FuzzyReturn
    \/ CleanFinish
    \/ ProfileExact
    \/ ProfileExactError
    \/ ProfileNoFuzzy
    \/ ProfileFuzzyBegin
    \/ FuzzyOuterSkip
    \/ FuzzyOuterAnchor
    \/ FuzzyInnerSkip
    \/ FuzzyInnerCompare
    \/ FuzzyInnerEnd
    \/ ProfileFuzzyEnd
    \/ JamesValidKeys
    \/ JamesNoValidKeys
    \/ JamesRow
    \/ JamesFinish
    \/ JamesUnknownHandling

Spec == Init /\ [][Next]_vars

\* ======================================================================
\* emma.py on large files: detect_exact_duplicates at its cutoff and the
\* chunked analysis of profile_csv, with LargeCutoff and LargeChunk rows
\* standing for the 10,000 of lines 288 and 140
\* ======================================================================

\* df.iloc[i:end_idx]: the rows keep their labels
iloc_slice(d, start, stop) == SubSeq(d, start + 1, stop)

\* lines 147-170: the loop over the chunks from row start on (i in the
\* source); results is the
\* aggregate so far.  A chunk never has more duplicated rows than the
\* cutoff, as the chunk size does not exceed it, so a chunk's result always
\* enumerates its groups.
RECURSIVE chunked_exact_duplicates(_, _, _, _, _, _, _)
chunked_exact_duplicates(d, cols, keeps_columns, chunk_size, cutoff, start, results) ==
    IF start >= Len(d) THEN results
    ELSE LET end_idx == IF start + chunk_size < Len(d) THEN start + chunk_size ELSE Len(d)
             chunk_df == iloc_slice(d, start, end_idx)
             chunk_results ==
                 exact_duplicates_with_cutoff(chunk_df, cols, keeps_columns, cutoff)
         IN  IF chunk_results.raised THEN [results EXCEPT !.raised = TRUE]
             ELSE chunked_exact_duplicates(
                      d, cols, keeps_columns, chunk_size, cutoff,
                      start + chunk_size,
                      [results EXCEPT
                          !.groups = @ \cup chunk_results.groups,
                          !.summary.exact_duplicate_groups =
                              @ + chunk_results.summary.exact_duplicate_groups,
                          !.summary.exact_duplicate_records =
                              @ + chunk_results.summary.exact_duplicate_records])

\* a file has been read and a duplicate strategy chosen
LargeInit ==
    /\ profile_pc = "large_start"
    /\ profile_df \in {Frame(rows) : rows \in Datasets}
    /\ strategy_columns \in ColumnChoices
    /\ exact_duplicates = NoExactDuplicates(<<>>)
    /\ string_columns = AllColumns
    /\ profile_threshold = 90
    /\ anchor_pos = 1
    /\ match_pos = 1
    /\ fuzzy_group = <<>>
    /\ fuzzy_processed = {}
    /\ fuzzy_groups = <<>>
    /\ fuzzy_duplicates = NoFuzzyDuplicates

\* detect_exact_duplicates applied to the whole file, and returning
DetectExactWhole ==
    /\ profile_pc = "large_start"
    /\ \E keeps_columns \in BOOLEAN :
          LET r == exact_duplicates_with_cutoff(profile_df, strategy_columns,
                                                keeps_columns, LargeCutoff)
          IN  /\ ~ r.raised
              /\ exact_duplicates' = r
    /\ profile_pc' = "whole_done"
    /\ UNCHANGED <<profile_df, strategy_columns, string_columns,
                   profile_threshold, anchor_pos, match_pos, fuzzy_group,
                   fuzzy_processed, fuzzy_groups, fuzzy_duplicates>>
    /\ UNCHANGED <<oskarVars, jamesVars, extraVars>>

\* detect_exact_duplicates applied to the whole file, and raising
DetectExactWholeError ==
    /\ profile_pc = "large_start"
    /\ \E keeps_columns \in BOOLEAN :
          exact_duplicates_with_cutoff(profile_df, strategy_columns,
                                       keeps_columns, LargeCutoff).raised
    /\ profile_pc' = "whole_error"
    /\ UNCHANGED <<profile_df, strategy_columns, exact_duplicates,
                   string_columns, profile_threshold, anchor_pos, match_pos,
                   fuzzy_group, fuzzy_processed, fuzzy_groups,
                   fuzzy_duplicates>>
    /\ UNCHANGED <<oskarVars, jamesVars, extraVars>>

\* lines 142-176 of profile_csv for a file of more rows than a chunk: every
\* chunk is analysed and the results are aggregated
ProfileChunked ==
    /\ profile_pc = "large_start"
    /\ Len(profile_df) > LargeChunk
    /\ \E keeps_columns \in BOOLEAN :
          LET r == chunked_exact_duplicates(
                       profile_df, strategy_columns, keeps_columns, LargeChunk,
                       LargeCutoff, 0, NoExactDuplicates(profile_df))
          IN  /\ ~ r.raised
              /\ exact_duplicates' = r
    /\ profile_pc' = "chunked_done"
    /\ UNCHANGED <<profile_df, strategy_columns, string_columns,
                   profile_threshold, anchor_pos, match_pos, fuzzy_group,
                   fuzzy_processed, fuzzy_groups, fuzzy_duplicates>>
    /\ UNCHANGED <<oskarVars, jamesVars, extraVars>>

\* the analysis of a chunk raises; profile_csv returns {"error": ...}
\* (line 265)
ProfileChunkedError ==
    /\ profile_pc = "large_start"
    /\ Len(profile_df) > LargeChunk
    /\ \E keeps_columns \in BOOLEAN :
          chunked_exact_duplicates(
              profile_df, strategy_columns, keeps_columns, LargeChunk,
              LargeCutoff, 0, NoExactDuplicates(profile_df)).raised
    /\ profile_pc' = "chunked_error"
    /\ UNCHANGED <<profile_df, strategy_columns, exact_duplicates,
                   string_columns, profile_threshold, anchor_pos, match_pos,
                   fuzzy_group, fuzzy_processed, fuzzy_groups,
                   fuzzy_duplicates>>
    /\ UNCHANGED <<oskarVars, jamesVars, extraVars>>

InitLarge == CleanIdle /\ LargeInit /\ JamesIdle /\ ExtraIdle

NextLarge ==
    \/ DetectExactWhole
    \/ DetectExactWholeError
    \/ ProfileChunked
    \/ ProfileChunkedError

SpecLarge == InitLarge /\ [][NextLarge]_vars


\* ======================================================================
\* Properties
\* ======================================================================


\* ---- profile_csv: the key columns and the duplicate strategies --------
InitRoles ==
    CleanIdle /\ ProfileIdle /\ JamesIdle /\ RolesInit /\ ColumnsIdle /\ SampleIdle
        /\ MikeIdle /\ FilesIdle /\ SseIdle

NextRoles ==
    \/ IdentifyKeyColumns
    \/ SuggestDuplicateStrategies

SpecRoles == InitRoles /\ [][NextRoles]_vars

\* the elements of seq at the places in K, in order
RECURSIVE Pick(_, _, _)
Pick(seq, K, k) ==
    IF k > Len(seq) THEN <<>>
    ELSE IF k \in K THEN <<seq[k]>> \o Pick(seq, K, k + 1)
    ELSE Pick(seq, K, k + 1)

\* handle_fuzzy_duplicates has returned to clean_data: df is still the
\* frame it was called with, fuzzy_results is what it returned
FuzzyReturned == pc = "fuzzy_return"

\* the label of the row at position p of the frame handle_fuzzy_duplicates
\* was called with
LabelAt(p) == iloc(df, p).label

\* fuzz.ratio of the texts of two positions of that frame
Sim(a, b) == ratio(text_at(df, columns, a), text_at(df, columns, b))

\* cohesion >= review_threshold, the cohesion being a fraction
Cohesive(g) == g.similarity.sum >= review_threshold * g.similarity.n

\* ---- C1 ----------------------------------------------------------------
\* C1: every fuzzy group gets exactly one disposition, decided by cohesion,
\* review_threshold and auto_apply alone: auto-merge when cohesion >=
\* review_threshold and auto_apply, review-required when cohesion >=
\* review_threshold and not auto_apply, human-escalation when cohesion <
\* review_threshold.  The three counters add up to the number of groups
\* and groups_for_review holds exactly the groups of the last two kinds.
C1_Disposition ==
    FuzzyReturned =>
        LET K == 1..Len(similar_groups)
            Auto == {k \in K : Cohesive(similar_groups[k]) /\ auto_apply}
            Review == {k \in K : Cohesive(similar_groups[k]) /\ ~ auto_apply}
            Escalate == {k \in K : ~ Cohesive(similar_groups[k])}
        IN  /\ fuzzy_results.auto_merged_groups = Cardinality(Auto)
            /\ fuzzy_results.review_required_groups = Cardinality(Review)
            /\ fuzzy_results.human_escalation_groups = Cardinality(Escalate)
            /\ fuzzy_results.auto_merged_groups
                 + fuzzy_results.review_required_groups
                 + fuzzy_results.human_escalation_groups = Len(similar_groups)
            /\ fuzzy_results.groups_for_review =
                 Pick(similar_groups, Review \cup Escalate, 1)

\* one call that auto-merges one group and escalates another, which is
\* the only group handed over for review
C1_Witness ==
    /\ FuzzyReturned
    /\ fuzzy_results.auto_merged_groups >= 1
    /\ fuzzy_results.human_escalation_groups >= 1
    /\ Len(fuzzy_results.groups_for_review) = 1

\* ---- C2 ----------------------------------------------------------------
\* the groups the call auto-merged
AutoMerged == {g \in Range(similar_groups) : Cohesive(g) /\ auto_apply}

\* C2 (as claimed): for every auto-merged group the returned dataset holds
\* the group's first member and none of its other members, and every row
\* outside the auto-merged groups is still there, whatever the row labels
\* of the input are.
C2_AutoMergeKeepsFirst ==
    FuzzyReturned =>
        LET kept == Labels(fuzzy_results.cleaned_df)
            merged == UNION {Range(g.indices) : g \in AutoMerged}
        IN  /\ \A g \in AutoMerged :
                  /\ LabelAt(g.indices[1]) \in kept
                  /\ \A k \in 2..Len(g.indices) : LabelAt(g.indices[k]) \notin kept
            /\ \A p \in 0..(Len(df) - 1) : p \notin merged => LabelAt(p) \in kept

\* ---- C3 ----------------------------------------------------------------
\* the sum of the counts of a set of groups
RECURSIVE SumCounts(_)
SumCounts(S) ==
    IF S = {} THEN 0
    ELSE LET g == CHOOSE x \in S : TRUE IN g.count + SumCounts(S \ {g})

\* detect_exact_duplicates has returned a result to profile_csv
ExactReturned == profile_pc \in {"exact_done", "outer", "inner", "done"}

\* the key tuple of the k-th row of the profiled file
ProfileKey(k) == KeyTuple(profile_df[k].vals, strategy_columns)

\* the rows whose key tuple occurs at least twice, NaN equal to NaN
ProfileFlagged ==
    {k \in 1..Len(profile_df) :
        \E m \in 1..Len(profile_df) : m # k /\ ProfileKey(m) = ProfileKey(k)}

\* C3 (as claimed): the reported groups partition the duplicate-flagged
\* rows by their key tuple, NaN equal to NaN: one group per tuple that
\* occurs at least twice, each with all the rows of its tuple (at least
\* two), every flagged row in exactly one group, and
\* summary.exact_duplicate_records the sum of the groups' counts.
C3_ExactPartition ==
    ExactReturned =>
        LET G == exact_duplicates.groups
        IN  /\ {g.key : g \in G} = {ProfileKey(k) : k \in ProfileFlagged}
            /\ \A g \in G :
                  /\ g.count >= 2
                  /\ g.count =
                        Cardinality({k \in ProfileFlagged : ProfileKey(k) = g.key})
            /\ \A k \in ProfileFlagged :
                  Cardinality({g \in G : profile_df[k] \in Range(g.records)}) = 1
            /\ exact_duplicates.summary.exact_duplicate_groups
                  = Cardinality({ProfileKey(k) : k \in ProfileFlagged})
            /\ exact_duplicates.summary.exact_duplicate_records = SumCounts(G)

\* ---- C4 ----------------------------------------------------------------
\* detect_fuzzy_duplicates has returned to profile_csv
ProfileFuzzyDone ==
    profile_pc = "done" /\ fuzzy_duplicates.summary.total_rows > 0

\* fuzz.token_sort_ratio of the texts of two rows of the profiled file
ProfileSim(a, b) ==
    token_sort_ratio(fuzzy_text(profile_df, string_columns, a),
                     fuzzy_text(profile_df, string_columns, b))

\* b is the middle of a chain over the rows R: it is similar to each
\* other row, and the other rows are not similar to each other
ChainMiddle(S(_, _), threshold, b, R) ==
    /\ \A x \in R \ {b} : S(b, x) >= threshold
    /\ \A x, y \in R \ {b} : x # y => S(x, y) < threshold

\* C4 (as claimed): three rows A, B, C with sim(A,B) >= threshold,
\* sim(B,C) >= threshold and sim(A,C) < threshold never end up in one
\* group, whichever of them is iterated first.
C4_NeverAllThree ==
    /\ (FuzzyReturned /\ Len(df) = 3) =>
          \A b \in 0..2 :
              ChainMiddle(Sim, similarity_threshold, b, 0..2) =>
                  ~ \E g \in Range(similar_groups) : Len(g.indices) = 3
    /\ (ProfileFuzzyDone /\ Len(profile_df) = 3) =>
          \A b \in 0..2 :
              ChainMiddle(ProfileSim, profile_threshold, b, 0..2) =>
                  ~ \E g \in Range(fuzzy_groups) : g.count = 3

\* C4 (amended): the three rows end up in one group exactly when the
\* middle row B is iterated first, for B then recruits both A and C (in
\* handle_fuzzy_duplicates provided none of the three has an empty or
\* whitespace-only text, which is skipped); when A or C is iterated first
\* the three are never in one group.
C4_AllThreeIffMiddleFirst ==
    /\ (FuzzyReturned /\ Len(df) = 3) =>
          \A b \in 0..2 :
              ChainMiddle(Sim, similarity_threshold, b, 0..2) =>
                  ((\E g \in Range(similar_groups) : Len(g.indices) = 3)
                      <=> (/\ b = 0
                           /\ \A p \in 0..2 : ~ skip_text(text_at(df, columns, p))))
    /\ (ProfileFuzzyDone /\ Len(profile_df) = 3) =>
          \A b \in 0..2 :
              ChainMiddle(ProfileSim, profile_threshold, b, 0..2) =>
                  ((\E g \in Range(fuzzy_groups) : g.count = 3) <=> b = 0)

\* a chain whose middle row comes first, grouped as one group of three
C4_Witness ==
    /\ FuzzyReturned
    /\ Len(df) = 3
    /\ ChainMiddle(Sim, similarity_threshold, 0, 0..2)
    /\ \E g \in Range(similar_groups) : Len(g.indices) = 3

\* ---- C5 ----------------------------------------------------------------
\* the member lists of the groups handle_fuzzy_duplicates has built,
\* the one under construction included
BuiltGroups ==
    {g.indices : g \in Range(similar_groups)}
        \cup (IF group = <<>> THEN {} ELSE {group})

\* the member lists (row labels) of the groups detect_fuzzy_duplicates has
\* built, the one under construction included
ProfileBuiltGroups ==
    {[k \in 1..Len(g.records) |-> g.records[k].label] : g \in Range(fuzzy_groups)}
        \cup (IF fuzzy_group = <<>> THEN {} ELSE {fuzzy_group})

\* C5: every member of a fuzzy group other than its anchor scored at least
\* similarity_threshold against the anchor, and only the rows that joined
\* a group are marked as assigned: a row that scored below the threshold
\* stays available as a later anchor or member.  (detect_fuzzy_duplicates
\* also marks each anchor it has started.)
C5_MembersMatchAnchor ==
    /\ \A g \in BuiltGroups :
          \A k \in 2..Len(g) : Sim(g[1], g[k]) >= similarity_threshold
    /\ processed_indices = UNION {Range(Tail(g)) : g \in BuiltGroups}
    /\ \A g \in ProfileBuiltGroups :
          \A k \in 2..Len(g) : ProfileSim(g[1], g[k]) >= profile_threshold
    /\ \A l \in fuzzy_processed :
          \/ \E g \in ProfileBuiltGroups : l \in Range(g)
          \/ \E q \in 1..Len(profile_df) :
                q < anchor_pos /\ sample_indices(profile_df)[q] = l

\* a row that scored below the threshold against the first anchor and
\* later became the anchor of a group of its own
C5_Witness ==
    /\ FuzzyReturned
    /\ Len(similar_groups) = 2
    /\ Sim(similar_groups[1].indices[1], similar_groups[2].indices[1])
          < similarity_threshold
    /\ similar_groups[1].indices[1] < similar_groups[2].indices[1]

\* ---- C6 ----------------------------------------------------------------
\* C6: every fuzzy group that is emitted has at least 2 members; an anchor
\* that recruits no row produces no group.
C6_GroupsHaveTwoMembers ==
    /\ \A g \in Range(similar_groups) : Len(g.indices) >= 2
    /\ \A g \in Range(fuzzy_results.groups_for_review) : Len(g.indices) >= 2
    /\ \A g \in Range(fuzzy_groups) : g.count >= 2 /\ Len(g.records) >= 2
    /\ \A g \in Range(fuzzy_duplicates.fuzzy_duplicates) : g.count >= 2

\* a call that found one group and had an anchor that recruited no row
C6_Witness ==
    /\ FuzzyReturned
    /\ Len(similar_groups) = 1
    /\ \E p \in 0..(Len(df) - 1) :
          /\ ~ skip_text(text_at(df, columns, p))
          /\ p \notin Range(similar_groups[1].indices)

\* ---- C7 ----------------------------------------------------------------
\* the sum of fuzz.ratio over a set of pairs of places of a member list
RECURSIVE PairSum(_, _)
PairSum(members, pairs) ==
    IF pairs = {} THEN 0
    ELSE LET q == CHOOSE x \in pairs : TRUE
         IN  Sim(members[q[1]], members[q[2]]) + PairSum(members, pairs \ {q})

\* C7: the cohesion of a fuzzy group is the mean of the similarity over
\* all unordered pairs of its members; with exactly one pair it is that
\* pair's similarity.
C7_CohesionIsPairwiseMean ==
    \A g \in Range(similar_groups) :
        LET pairs == {q \in (1..Len(g.indices)) \X (1..Len(g.indices)) : q[1] < q[2]}
        IN  /\ g.similarity.n = Cardinality(pairs)
            /\ g.similarity.sum = PairSum(g.indices, pairs)
            /\ Len(g.indices) = 2 =>
                  /\ g.similarity.n = 1
                  /\ g.similarity.sum = Sim(g.indices[1], g.indices[2])

\* a group of three whose two recruits are not similar to each other, so
\* that the member-member pair lowers the mean
C7_Witness ==
    \E g \in Range(similar_groups) :
        /\ Len(g.indices) = 3
        /\ Sim(g.indices[2], g.indices[3]) < similarity_threshold

\* ---- C8 ----------------------------------------------------------------
\* C8 (as claimed): a row whose comparison key is empty or whitespace-only
\* is never an anchor and never a member of a fuzzy group, so auto-merge
\* never removes it.
C8_EmptyKeyUntouched ==
    pc \in {"outer", "inner", "fuzzy_return"} =>
        \A p \in 0..(Len(df) - 1) :
            skip_text(text_at(df, columns, p)) =>
                /\ \A g \in BuiltGroups : p \notin Range(g)
                /\ FuzzyReturned => LabelAt(p) \in Labels(fuzzy_results.cleaned_df)

\* ---- C9 ----------------------------------------------------------------
\* C9 (as claimed): a comparison of an empty key value with an empty key
\* value contributes no 100% score, so validate_and_check_duplicates never
\* classifies as a duplicate a mapped row whose key fields are all empty.
C9_NoEmptyKeyDuplicate ==
    \A d \in Range(duplicates) :
        \E k \in Range(valid_keys) : value_str(d.vals[k]) # <<>>

\* ---- C10 ---------------------------------------------------------------
\* C10 (as claimed): detect_fuzzy_duplicates never groups two rows whose
\* comparison keys are both empty or whitespace-only.
C10_NoEmptyKeysGrouped ==
    \A g \in ProfileBuiltGroups :
        \A a, b \in Range(g) :
            a # b =>
                ~ (/\ skip_text(fuzzy_text(profile_df, string_columns, a))
                   /\ skip_text(fuzzy_text(profile_df, string_columns, b)))

\* ---- C11 ---------------------------------------------------------------
\* the rows of mapped_data classified so far
Classified == 0..(source_idx - 1)

\* some target row has a mean key-field similarity of at least the
\* threshold with the mapped row at place p
MatchesTarget(p) ==
    \E t \in 1..Len(target_data) :
        LET avg == avg_similarity(iloc(mapped_data, p).vals,
                                  target_data[t].vals, valid_keys)
        IN  avg.sum >= james_threshold * avg.n

\* C11: validate_and_check_duplicates classifies every mapped row as
\* exactly one of duplicate or unique: duplicate iff the greatest mean
\* key-field similarity over the target rows is >= similarity_threshold,
\* unique otherwise; duplicate_count + unique_count is the number of
\* mapped rows.
C11_Classification ==
    james_pc \in {"rows", "done"} =>
        /\ \A p \in Classified :
              LET asDuplicate == {k \in 1..Len(duplicates) : duplicates[k].match_id = p}
                  asUnique == {k \in 1..Len(unique_records) : unique_records[k].label = p}
              IN  /\ Cardinality(asDuplicate) + Cardinality(asUnique) = 1
                  /\ MatchesTarget(p) <=> asDuplicate # {}
                  /\ \A k \in asDuplicate :
                        duplicates[k].vals = iloc(mapped_data, p).vals
        /\ Len(duplicates) + Len(unique_records) = source_idx
        /\ james_pc = "done" =>
              /\ james_results.duplicate_count = Len(duplicates)
              /\ james_results.unique_count = Len(unique_records)
              /\ james_results.duplicate_count + james_results.unique_count
                    = Len(mapped_data)

\* a call that found one mapped row a duplicate and another unique
C11_Witness ==
    /\ james_pc = "done"
    /\ james_results.duplicate_count >= 1
    /\ james_results.unique_count >= 1

\* ---- C12 ---------------------------------------------------------------
\* the mean key-field similarity, as a fraction, of the mapped row at
\* place p with the target row at place t
MeanWith(p, t) ==
    avg_similarity(iloc(mapped_data, p).vals, iloc(target_data, t).vals, valid_keys)

\* the row that JamesRow classified last
LastClassified == source_idx - 1

\* C12: the best match of a mapped row is one target row at most: the
\* first target row in iteration order whose mean key-field similarity is
\* the greatest; a later target row with an equal score never replaces it.
\* (No target row is designated when every score is 0.)
C12_FirstBestMatch ==
    (james_pc \in {"rows", "done"} /\ source_idx >= 1) =>
        LET T == 0..(Len(target_data) - 1)
            p == LastClassified
        IN  IF best_match = -1
            THEN /\ \A t \in T : MeanWith(p, t).sum = 0
                 /\ highest_similarity.sum = 0
            ELSE /\ best_match \in T
                 /\ highest_similarity = MeanWith(p, best_match)
                 /\ \A t \in T : MeanWith(p, t).sum <= MeanWith(p, best_match).sum
                 /\ \A t \in T :
                       t < best_match =>
                           MeanWith(p, t).sum < MeanWith(p, best_match).sum

\* two target rows tie for the greatest score and the first is designated
C12_Witness ==
    /\ james_pc \in {"rows", "done"}
    /\ source_idx >= 1
    /\ Len(target_data) = 2
    /\ best_match = 0
    /\ MeanWith(LastClassified, 0).sum > 0
    /\ MeanWith(LastClassified, 1) = MeanWith(LastClassified, 0)

\* ---- C13 ---------------------------------------------------------------
\* C13 (as claimed): a record written to the duplicates carries the
\* similarity score of its best match, and its match_id refers to the
\* best-matching row of the target dataset.
C13_MatchIdIsTarget ==
    (/\ james_pc \in {"rows", "done"}
     /\ source_idx >= 1
     /\ MatchesTarget(LastClassified)) =>
        LET d == duplicates[Len(duplicates)]
        IN  /\ d.similarity_score = MeanWith(LastClassified, best_match)
            /\ d.match_id = iloc(target_data, best_match).label

\* ---- C14 ---------------------------------------------------------------
\* C14: in the output the duplicate records are in order of non-increasing
\* similarity score, and the unique records are in the order they have in
\* the mapped dataset.
C14_OutputOrder ==
    james_pc = "done" =>
        LET dups == james_results.duplicates_df
            uniq == james_results.unique_df
        IN  /\ \A k \in 1..(Len(dups) - 1) :
                  ~ score_less(dups[k].similarity_score,
                               dups[k + 1].similarity_score)
            /\ {dups[k] : k \in 1..Len(dups)} = Range(duplicates)
            /\ Len(dups) = Len(duplicates)
            /\ \A k \in 1..(Len(uniq) - 1) : uniq[k].label < uniq[k + 1].label
            /\ \A k \in 1..Len(uniq) : uniq[k] = iloc(mapped_data, uniq[k].label)
            /\ Len(uniq) = Len(mapped_data) - Len(dups)

\* two duplicates found in order of ascending score, which the output
\* reorders
C14_Witness ==
    /\ james_pc = "done"
    /\ Len(duplicates) = 2
    /\ score_less(duplicates[1].similarity_score, duplicates[2].similarity_score)
    /\ james_results.duplicates_df = <<duplicates[2], duplicates[1]>>

\* ---- C15 ---------------------------------------------------------------
\* the column names common to both datasets, in ascending order
SortedCommonColumns ==
    CHOOSE q \in UNION {[1..n -> Range(mapped_columns)] : n \in 0..Len(mapped_columns)} :
        /\ Range(q) = Range(mapped_columns) \cap Range(target_columns)
        /\ \A k \in 1..(Len(q) - 1) : q[k] < q[k + 1]

\* C15 (as claimed): when key_fields is omitted or empty, the key fields
\* used are the column names common to both datasets in sorted order.
C15_DefaultKeysSorted ==
    (james_pc \in {"rows", "done"} /\ key_fields = <<>>) =>
        valid_keys = SortedCommonColumns

\* ---- C16 ---------------------------------------------------------------
\* a requested key field is not a column of the mapped dataset or not a
\* column of the target dataset
KeyFieldAbsent ==
    \E k \in Range(key_fields) :
        k \notin Range(mapped_columns) \/ k \notin Range(target_columns)

\* C16 (as claimed): when a requested key field is absent from the mapped
\* or the target dataset, the call returns an error that lists the
\* requested keys and the columns of both datasets and produces no
\* duplicates, unique or final output; it does not go on with the keys
\* that are present.
C16_AbsentKeyIsError ==
    (KeyFieldAbsent /\ james_pc \notin {"idle", "start"}) =>
        /\ james_pc = "error"
        /\ james_results.error
        /\ james_results.provided_keys = key_fields
        /\ james_results.mapped_columns = mapped_columns
        /\ james_results.target_columns = target_columns
        /\ duplicates = <<>>
        /\ unique_records = <<>>
        /\ ~ james_results.has_final_output

\* ---- C17 ---------------------------------------------------------------
\* C17 (as claimed): detect_exact_duplicates enumerates the groups when the
\* number of duplicate-flagged rows is below the cutoff and returns a
\* summary only when it is at or above the cutoff, the cutoff itself
\* included; on both paths the summary counts the same groups and records.
C17_SummaryAtCutoff ==
    profile_pc = "whole_done" =>
        LET flagged == Cardinality(ProfileFlagged)
            keyed == {ProfileKey(k) : k \in ProfileFlagged}
        IN  /\ exact_duplicates.summary_only <=> flagged >= LargeCutoff
            /\ exact_duplicates.summary.exact_duplicate_records = flagged
            /\ exact_duplicates.summary.exact_duplicate_groups =
                  Cardinality({t \in keyed : \A c \in 1..Len(t) : notna(t[c])})

\* ---- C18 ---------------------------------------------------------------
\* the places of d that hold the first row of their key tuple
FirstOccurrences(d, cols) ==
    {k \in 1..Len(d) :
        \A m \in 1..(k - 1) : KeyTuple(d[m].vals, cols) # KeyTuple(d[k].vals, cols)}

\* C18: remove_exact_duplicates is idempotent: on its own output with the
\* same columns it flags no row, removes nothing and reports 0 removed
\* rows and 0 groups; the first application leaves one row per distinct
\* key tuple, its first occurrence in row order.
C18_RemoveExactIdempotent ==
    pc \in {"tasks", "done"} =>
        \A cols \in ColumnChoices :
            LET once == remove_exact_duplicates(df, cols)
                twice == remove_exact_duplicates(once.cleaned_df, cols)
            IN  /\ \A k \in 1..Len(once.cleaned_df) :
                      ~ duplicated_mask(once.cleaned_df, cols)[k]
                /\ twice.cleaned_df = once.cleaned_df
                /\ twice.duplicates_removed = 0
                /\ twice.groups_found = 0
                /\ Range(once.cleaned_df) = {df[k] : k \in FirstOccurrences(df, cols)}
                /\ Len(once.cleaned_df) = Cardinality(FirstOccurrences(df, cols))
                /\ \A k \in 1..(Len(once.cleaned_df) - 1) :
                      once.cleaned_df[k].label < once.cleaned_df[k + 1].label

\* the frame is the output of an application that removed rows
C18_Witness ==
    /\ pc = "tasks"
    /\ operations_performed = <<"Removed exact duplicates">>
    /\ duplicate_results.duplicates_removed >= 1
    /\ df = duplicate_results.cleaned_df

\* ---- C19 ---------------------------------------------------------------
\* C19 (as claimed): for a file of more rows than a chunk, the groups and
\* the group and record counts that profile_csv aggregates over the chunks
\* are those of detect_exact_duplicates run once on the whole file, also
\* for equal rows that lie in different chunks.
C19_ChunkingPreservesDuplicates ==
    profile_pc = "chunked_done" =>
        \A keeps_columns \in BOOLEAN :
            LET whole == exact_duplicates_with_cutoff(
                             profile_df, strategy_columns, keeps_columns, LargeCutoff)
            IN  ~ whole.raised =>
                    /\ exact_duplicates.summary = whole.summary
                    /\ ~ whole.summary_only =>
                          exact_duplicates.groups = whole.groups

\* ---- C20 ---------------------------------------------------------------
\* the rows at which the chunks of the profiled file start
ChunkStarts == {s \in 0..(Len(profile_df) - 1) : s % LargeChunk = 0}

\* what detect_exact_duplicates returns for the chunk that starts at row s
ChunkResult(s) ==
    exact_duplicates_with_cutoff(
        iloc_slice(profile_df, s,
                   IF s + LargeChunk < Len(profile_df)
                   THEN s + LargeChunk ELSE Len(profile_df)),
        strategy_columns, FALSE, LargeCutoff)

\* the group and record counts of a set of chunks, summed
RECURSIVE ChunkTotals(_)
ChunkTotals(S) ==
    IF S = {} THEN [groups |-> 0, records |-> 0]
    ELSE LET s == CHOOSE x \in S : TRUE
             rest == ChunkTotals(S \ {s})
         IN  [groups |-> rest.groups
                            + ChunkResult(s).summary.exact_duplicate_groups,
              records |-> rest.records
                            + ChunkResult(s).summary.exact_duplicate_records]

\* C20 (as claimed): for every file of more rows than a chunk the chunked
\* analysis completes and returns a result, not an error, whose counts are
\* the sums of the chunks' counts and whose groups are the chunks' groups
\* together, whether the duplicate rows lie in the first chunk or a later.
C20_ChunkedCompletes ==
    /\ profile_pc # "chunked_error"
    /\ profile_pc = "chunked_done" =>
          /\ ~ exact_duplicates.raised
          /\ exact_duplicates.summary.exact_duplicate_groups
                = ChunkTotals(ChunkStarts).groups
          /\ exact_duplicates.summary.exact_duplicate_records
                = ChunkTotals(ChunkStarts).records
          /\ exact_duplicates.groups
                = UNION {ChunkResult(s).groups : s \in ChunkStarts}

\* ---- clean_data: duplicate removal and the two column tasks ----------
InitColumns ==
    ColumnsInit /\ ProfileIdle /\ JamesIdle /\ RolesIdle /\ SampleIdle /\ MikeIdle
        /\ FilesIdle /\ SseIdle

NextColumns ==
    \/ TaskRemoveExactDuplicates
    \/ TaskHandleMissingValues
    \/ TaskStandardizeCapitalization
    \/ CleanFinish

SpecColumns == InitColumns /\ [][NextColumns]_vars

\* ---- detect_fuzzy_duplicates called twice on a file past its caps -----
InitSampled ==
    CleanIdle /\ SampledInit /\ JamesIdle /\ RolesIdle /\ ColumnsIdle /\ MikeIdle
        /\ FilesIdle /\ SseIdle

NextSampled ==
    \/ SampledBegin
    \/ SampledSkip
    \/ SampledAnchor
    \/ SampledReturn

SpecSampled == InitSampled /\ [][NextSampled]_vars

\* ---- clean_data with auto-merge on a five-row file --------------------
InitMerge == MergeInit /\ ProfileIdle /\ JamesIdle /\ ExtraIdle

NextMerge ==
    \/ TaskRemoveExactDuplicates
    \/ TaskReviewFuzzyDuplicates
    \/ OuterSkip
    \/ OuterAnchor
    \/ InnerSkip
    \/ InnerCompare
    \/ InnerEnd
    \/ FuzzyFinish
    \/ FuzzyDropKeyError
    \/ FuzzyReturn
    \/ CleanFinish

SpecMerge == InitMerge /\ [][NextMerge]_vars

\* ---- migration_workflow driven turn by turn ---------------------------
InitTransfer == CleanIdle /\ ProfileIdle /\ TransferInit /\ RolesIdle /\ ColumnsIdle
                    /\ SampleIdle /\ MikeIdle /\ SseIdle

NextTransfer ==
    \/ JamesValidKeys
    \/ JamesNoValidKeys
    \/ JamesRow
    \/ JamesFinish
    \/ JamesUnknownHandling
    \/ JamesCall
    \/ ProcessDuplicates

SpecTransfer == InitTransfer /\ [][NextTransfer]_vars

InitEvents == CleanIdle /\ ProfileIdle /\ JamesIdle /\ RolesIdle /\ ColumnsIdle
                  /\ SampleIdle /\ MikeIdle /\ FilesIdle /\ SseIdle

NextEvents ==
    \/ Connect
    \/ StartForward
    \/ PostMessage
    \/ ForwardEvents
    \/ YieldEvent
    \/ Disconnect
    \/ StreamClosed

SpecEvents == InitEvents /\ [][NextEvents]_vars

InitWorkflow ==
    CleanIdle /\ ProfileIdle /\ JamesIdle /\ RolesIdle /\ ColumnsIdle
        /\ SampleIdle /\ MikeInit /\ FilesIdle /\ SseIdle

NextWorkflow == MigrationWorkflow

SpecWorkflow == InitWorkflow /\ [][NextWorkflow]_vars

\* ---- C21 -------------------------------------------------------------
\* the strategy names in the order the function appends them
StrategyOrder ==
    <<"Exact ID match", "Fuzzy name match", "Name + Category match",
      "All text fields">>

StrategyRank(name) == CHOOSE k \in 1..Len(StrategyOrder) : StrategyOrder[k] = name

StrategyNamed(name) ==
    { k \in 1..Len(duplicate_strategies) : duplicate_strategies[k].name = name }

\* the string columns of the profiled schema, in column order
SchemaStringColumns ==
    [k \in 1..Cardinality({ a \in 1..Len(schema) : schema[a].dtype = "string" }) |->
        schema[CHOOSE a \in 1..Len(schema) :
                 /\ schema[a].dtype = "string"
                 /\ Cardinality({ b \in 1..a : schema[b].dtype = "string" }) = k].name]

\* C21: suggest_duplicate_strategies returns its strategies in one fixed
\* order with fixed thresholds: identifier columns (100), name columns (85),
\* name plus categorical columns (90), all string columns cut to the first
\* five (80); a strategy is there only when its columns exist, and no
\* strategy appears twice or out of order.
C21_StrategyOrder ==
    roles_pc = "suggested" =>
        /\ \A k \in 1..Len(duplicate_strategies) :
             /\ duplicate_strategies[k].name \in Range(StrategyOrder)
             /\ duplicate_strategies[k].threshold =
                  <<100, 85, 90, 80>>[StrategyRank(duplicate_strategies[k].name)]
             /\ duplicate_strategies[k].columns # <<>>
        /\ \A a, b \in 1..Len(duplicate_strategies) :
             a < b => StrategyRank(duplicate_strategies[a].name)
                        < StrategyRank(duplicate_strategies[b].name)
        /\ (StrategyNamed("Exact ID match") # {}) = (key_columns.identifier # <<>>)
        /\ (StrategyNamed("Fuzzy name match") # {}) = (key_columns.name # <<>>)
        /\ (StrategyNamed("Name + Category match") # {})
             = (key_columns.name # <<>> /\ key_columns.categorical # <<>>)
        /\ (StrategyNamed("All text fields") # {}) = (SchemaStringColumns # <<>>)
        /\ \A k \in StrategyNamed("Exact ID match") :
             duplicate_strategies[k].columns = key_columns.identifier
        /\ \A k \in StrategyNamed("Fuzzy name match") :
             duplicate_strategies[k].columns = key_columns.name
        /\ \A k \in StrategyNamed("Name + Category match") :
             \E n \in 1..2 :
                /\ n <= Len(key_columns.categorical)
                /\ n = 2 \/ Len(key_columns.categorical) = 1
                /\ duplicate_strategies[k].columns
                     = key_columns.name \o SubSeq(key_columns.categorical, 1, n)
        /\ \A k \in StrategyNamed("All text fields") :
             /\ Len(duplicate_strategies[k].columns) <= 5
             /\ Len(duplicate_strategies[k].columns) = 5
                  \/ Len(duplicate_strategies[k].columns) = Len(SchemaStringColumns)
             /\ duplicate_strategies[k].columns
                  = SubSeq(SchemaStringColumns, 1, Len(duplicate_strategies[k].columns))

\* all four strategies are returned and the file has more than five
\* string columns
C21_Witness ==
    /\ roles_pc = "suggested"
    /\ Len(duplicate_strategies) = 4
    /\ Len(SchemaStringColumns) > 5

\* ---- C22 -------------------------------------------------------------
IdentifierTokens ==
    { <<"i", "d">>, <<"k", "e", "y">>, <<"c", "o", "d", "e">>,
      <<"n", "u", "m", "b", "e", "r">>, <<"n", "r">>, <<"n", "o">> }

NameTokens ==
    { <<"n", "a", "m", "e">>, <<"f", "i", "r", "s", "t">>, <<"l", "a", "s", "t">>,
      <<"c", "u", "s", "t", "o", "m", "e", "r">>, <<"c", "l", "i", "e", "n", "t">>,
      <<"p", "e", "r", "s", "o", "n">> }

HasToken(name, tokens) == \E t \in tokens : contains(lower(name), t)

RoleNames == {"identifier", "name", "date", "categorical", "numerical"}

\* the role the precedence gives a column, "none" for no role
RoleByPrecedence(c) ==
    IF HasToken(c.name, IdentifierTokens) THEN "identifier"
    ELSE IF HasToken(c.name, NameTokens) THEN "name"
    ELSE IF c.dtype = "numeric" THEN "numerical"
    ELSE IF c.dtype = "string" /\ c.nunique < 50 /\ 10 * c.nunique < row_count
    THEN "categorical"
    ELSE IF c.dtype = "datetime" THEN "date"
    ELSE "none"

\* C22: identify_key_columns gives every column at most one role, by
\* first-match precedence: identifier token in the lower-cased name, else
\* name token, else numeric dtype, else text with fewer distinct values than
\* min(50, a tenth of the rows), else date dtype, else no role; a column
\* whose name holds a token of both sets is an identifier only.
C22_RolePrecedence ==
    roles_pc \in {"identified", "suggested"} =>
        \A k \in 1..Len(schema) :
            /\ \A r \in RoleNames :
                 (schema[k].name \in Range(key_columns[r]))
                    = (RoleByPrecedence(schema[k]) = r)
            /\ Cardinality({ <<r, p>> \in RoleNames \X (1..Len(schema)) :
                                /\ p <= Len(key_columns[r])
                                /\ key_columns[r][p] = schema[k].name }) <= 1
            /\ (HasToken(schema[k].name, IdentifierTokens)
                  /\ HasToken(schema[k].name, NameTokens))
                 => /\ schema[k].name \in Range(key_columns.identifier)
                    /\ schema[k].name \notin Range(key_columns.name)

\* a column whose name holds both an identifier and a name token was given
\* its role, next to a categorical column
C22_Witness ==
    /\ roles_pc = "identified"
    /\ \E k \in 1..Len(schema) :
         /\ HasToken(schema[k].name, IdentifierTokens)
         /\ HasToken(schema[k].name, NameTokens)
    /\ key_columns.categorical # <<>>

\* ---- C23 -------------------------------------------------------------
NullCount(d, c) == Cardinality({k \in 1..Len(d) : isna(d[k].vals[c])})

\* the last column task was handle_missing_values with the median strategy
\* on a numeric column
MedianCall ==
    /\ column_call.task = "handle_missing_values"
    /\ column_call.strategy = "median"
    /\ is_numeric_dtype(dtypes[column_call.column])

\* the cleaned dataset differs from the input in null cells of column c only
OnlyNullCellsChanged(before, after, c) ==
    /\ Len(after) = Len(before)
    /\ \A k \in 1..Len(before) :
         /\ after[k].label = before[k].label
         /\ \A x \in 1..Len(before[k].vals) :
              (x # c \/ notna(before[k].vals[x]))
                 => after[k].vals[x] = before[k].vals[x]

\* C23: handle_missing_values with the median strategy on a numeric column
\* changes only the null cells of that column: the column's non-null count
\* grows by exactly the prior null count, the values that were not null, the
\* other columns and the row count stay, values_filled is the prior null
\* count, and the dataset passed in is not modified.
C23_MedianFillsOnlyNulls ==
    MedianCall =>
        LET before == column_call.input
            after == column_call.results.cleaned_df
            c == column_call.column
        IN  /\ OnlyNullCellsChanged(before, after, c)
            /\ NullCount(after, c) = 0
            /\ column_call.results.values_filled = NullCount(before, c)
            /\ column_call.input_after = before

\* ---- C24 -------------------------------------------------------------
\* C24: fuzzy duplicate detection is deterministic: two calls of
\* detect_fuzzy_duplicates on the same file return the same groups and the
\* same counts, also when the file is longer than the anchor cap or the
\* neighbour cap and the calls sample.
C24_SecondRunEqualsFirst ==
    profile_pc = "sampled_done" => fuzzy_duplicates = first_run

\* ---- C25 -------------------------------------------------------------
\* the labels of the rows of the groups profile_csv or a sampled call built
GroupLabels(g) == {g.records[k].label : k \in 1..Len(g.records)}

\* C25: the fuzzy groups of one run are pairwise disjoint, in
\* handle_fuzzy_duplicates and in detect_fuzzy_duplicates: no row is in two
\* groups, fuzzy_duplicate_records counts no row twice, and the auto-merge
\* of one group never removes the row that is the kept first member of
\* another group.
C25_GroupsDisjoint ==
    /\ FuzzyReturned =>
         /\ \A a, b \in 1..Len(similar_groups) :
               a # b => Range(similar_groups[a].indices)
                           \cap Range(similar_groups[b].indices) = {}
         /\ \A g, h \in AutoMerged :
               g # h => LabelAt(g.indices[1]) \in Labels(fuzzy_results.cleaned_df)
    /\ profile_pc \in {"done", "sampled_done"} =>
         /\ \A a, b \in 1..Len(fuzzy_duplicates.fuzzy_duplicates) :
               a # b => GroupLabels(fuzzy_duplicates.fuzzy_duplicates[a])
                           \cap GroupLabels(fuzzy_duplicates.fuzzy_duplicates[b]) = {}
         /\ fuzzy_duplicates.summary.fuzzy_duplicate_records =
               Cardinality(UNION {GroupLabels(fuzzy_duplicates.fuzzy_duplicates[k]) :
                                     k \in 1..Len(fuzzy_duplicates.fuzzy_duplicates)})

\* ---- C26 -------------------------------------------------------------
\* the spellings of column c of d that occur most often among the values
\* equal to v up to case
MostFrequentSpellings(d, c, v) ==
    LET same == SelectSeq(dropna_values(series(d, c)), LAMBDA w : lower(w) = lower(v))
    IN  {w \in Range(same) : \A x \in Range(same) : count_of(same, x) <= count_of(same, w)}

\* C26: standardize_capitalization never changes the number of rows and
\* changes no cell outside the given column; within the column a value is
\* only ever replaced by the most frequent capitalization of the same
\* case-insensitive value; this for every input dataset, whatever its row
\* labels, also after an earlier cleaning task removed rows.
C26_CapitalizationInPlace ==
    column_call.task = "standardize_capitalization" =>
        LET before == column_call.input
            after == column_call.results.cleaned_df
            c == column_call.column
        IN  /\ Len(after) = Len(before)
            /\ \A k \in 1..Len(before) :
                 /\ after[k].label = before[k].label
                 /\ \A x \in 1..Len(before[k].vals) :
                      x # c => after[k].vals[x] = before[k].vals[x]
                 /\ after[k].vals[c] # before[k].vals[c] =>
                      /\ notna(before[k].vals[c])
                      /\ after[k].vals[c] \in
                            MostFrequentSpellings(before, c, before[k].vals[c])

\* ---- C27 -------------------------------------------------------------
WorkflowOrder ==
    <<"start", "get_source_file", "select_source_file", "steward_analysis",
      "emma_profiling", "oskar_cleaning", "prepare_mapping", "mathias_mapping",
      "get_mapping_file", "james_migration", "get_migration_directory",
      "gina_report", "completed">>

WorkflowPhases ==
    {"steward_analysis", "emma_profiling", "prepare_mapping", "mathias_mapping",
     "james_migration", "gina_report"}

WorkflowRank(state) == CHOOSE k \in 1..Len(WorkflowOrder) : WorkflowOrder[k] = state

\* C27: driven from 'start' by feeding next_state back, the workflow is at
\* 'completed' only after steward_analysis, emma_profiling, prepare_mapping,
\* mathias_mapping, james_migration and gina_report were each visited, in
\* that order; on the way no input skips one of these phases or leads back
\* to an earlier state; a state the function does not know leads to 'start'.
C27_PhasesInOrder ==
    LET t == mike_history.trail IN
    /\ mike_state = "completed" => WorkflowPhases \subseteq Range(t)
    /\ \A k \in 1..(Len(t) - 1) :
         IF t[k] \in Range(WorkflowOrder)
         THEN /\ t[k + 1] \in Range(WorkflowOrder)
              /\ WorkflowRank(t[k]) < WorkflowRank(t[k + 1])
              /\ ~ \E p \in WorkflowPhases :
                      /\ WorkflowRank(t[k]) < WorkflowRank(p)
                      /\ WorkflowRank(p) < WorkflowRank(t[k + 1])
         ELSE t[k + 1] = "start"

\* a run that began in an unknown state reached 'completed' through the
\* three optional states oskar_cleaning, get_mapping_file and
\* get_migration_directory
C27_Witness ==
    /\ mike_state = "completed"
    /\ mike_history.trail[1] = "resume"
    /\ {"oskar_cleaning", "get_mapping_file", "get_migration_directory"}
          \subseteq Range(mike_history.trail)

\* ---- C28 -------------------------------------------------------------
\* C28: when the caller passes next_state and context back each turn, the
\* workflow_status accumulates: an agent once reported 'completed' or
\* 'skipped' is not reported 'pending' later in the run, and the response to
\* gina_report shows steward, emma, mathias, james and gina 'completed' and
\* oskar 'completed' or 'skipped'.
C28_StatusAccumulates ==
    mike_response.reported =>
        /\ \A a \in mike_history.done : mike_response.workflow_status[a] # "pending"
        /\ mike_call.current_state = "gina_report" =>
              /\ \A a \in MikeAgents \ {"oskar"} :
                    mike_response.workflow_status[a] = "completed"
              /\ mike_response.workflow_status["oskar"] \in {"completed", "skipped"}

\* ---- C29 -------------------------------------------------------------
\* the rows process_duplicates wrote to target_path
TransferredRows == row_values(read_csv(transfer.target))

\* process_duplicates was called with 'skip' after a validate run
SkipAfterValidate ==
    /\ transfer.called
    /\ ~ transfer.error
    /\ transfer.handling_option = "skip"
    /\ transfer.validated.ran

\* validate_and_check_duplicates reports 'complete' only with a final
\* output, and 'review_needed' without one when duplicates exist and
\* duplicate_handling is 'ask'
ValidateStatus ==
    james_pc = "done" =>
        /\ james_results.status = "complete" => james_results.has_final_output
        /\ (duplicates # <<>> /\ james_results.duplicate_handling = "ask") =>
              /\ james_results.status = "review_needed"
              /\ ~ james_results.has_final_output

\* C29 (as claimed): over any sequence of validate_and_check_duplicates and
\* process_duplicates calls on one mapped file, process_duplicates with
\* 'skip' transfers exactly the rows the most recent validate run classified
\* as unique and none it classified as duplicate; validate reports
\* 'complete' only with a final output and 'review_needed' without one when
\* duplicates exist and duplicate_handling is 'ask'.
C29_SkipTransfersLastUnique ==
    /\ SkipAfterValidate =>
          /\ TransferredRows = row_values(transfer.validated.unique)
          /\ transfer.total_records_transferred = Len(transfer.validated.unique)
    /\ ValidateStatus

\* ---- C30 -------------------------------------------------------------
\* nothing is under way: event_queue and every open client_queue are empty
Quiescent ==
    /\ event_queue = <<>>
    /\ \A c \in SseClients :
          streams[c].state = "streaming" => streams[c].client_queue = <<>>

\* the events client c received
Received(c) == Range(streams[c].received)

\* C30 (as claimed): with two or more clients connected to /events, every
\* event send_event enqueues is delivered to every client connected then
\* and still connected, and while one client stays connected each event
\* reaches at least one client.  Stated for the moments nothing is under
\* way, when an event not yet received never will be.
C30_Broadcast ==
    Quiescent =>
        \A k \in 1..Len(sent) :
            /\ Cardinality(sent[k].audience) >= 2 =>
                  \A c \in sent[k].audience \cap connected :
                      sent[k].event \in Received(c)
            /\ sent[k].audience \cap connected # {} =>
                  \E c \in SseClients : sent[k].event \in Received(c)

=============================================================================
